---- MODULE Spec2Model ----
(***************************************************************************)
(* Model of the Asteroids game loop (src/src/main.rs) and of the entities  *)
(* it drives (asteroid.rs, spaceship.rs, missile.rs, bonus.rs).            *)
(*                                                                         *)
(* One iteration of main's `loop` is cut into the phases named by pc:      *)
(*   "boucle"  top of the loop: the GameOver screen (bouclier = 0) or      *)
(*             Spaceship::maj_pos                                          *)
(*   "bonus"   Bonus::update_bonus, Bonus::verifier_collision              *)
(*   "tir"     firing, Missile::maj_pos_missile                            *)
(*   "scan"    the missile/asteroid collision scan, one missile per step   *)
(*             and, once every missile is scanned, the removal passes and  *)
(*             the fragments                                               *)
(*   "niveau"  the level check, handle_input, update_model, next_frame     *)
(*   "quitte"  after `break`                                               *)
(*                                                                         *)
(* Positions and velocities are f32 vectors in the program.  The model     *)
(* keeps of them what the control flow reads: the outcome of each distance *)
(* test is an input of the step that evaluates it, and the ship's position *)
(* and velocity are kept as "centre or elsewhere" and "zero or not".       *)
(* Indices are 1-based here and 0-based in the program.                    *)
(* Time is counted in half seconds: get_time() is `now`, get_frame_time()  *)
(* is `dt`; both are set when an iteration of the loop starts (the return  *)
(* of next_frame) and `now` is constant during the iteration; dt holds the *)
(* frame time until update_bonus, its only reader, has read it, then 0.    *)
(***************************************************************************)
EXTENDS Integers, Sequences, FiniteSets, TLC

VARIABLES
  pc,                   \* position in main's loop
  niveau,               \* main.rs:134
  asteroids,            \* main.rs:138  Vec<Asteroid>
  vaisseau,             \* main.rs:144  Spaceship
  missiles,             \* main.rs:147  Vec<Missile>
  bonus,                \* main.rs:150  Bonus
  asteroids_to_remove,  \* main.rs:260
  missiles_to_remove,   \* main.rs:261
  new_asteroids,        \* main.rs:262
  missile_index,        \* main.rs:264  position of the outer scan loop
  now,                  \* get_time()
  dt                    \* get_frame_time()

vars == << pc, niveau, asteroids, vaisseau, missiles, bonus, asteroids_to_remove,
           missiles_to_remove, new_asteroids, missile_index, now, dt >>

----------------------------------------------------------------------------
(* Bounds of the model *)

\* missiles in flight at once
MaxMissiles == 2
\* highest level reached
MaxNiveau == 2
\* half seconds a pickup can last beyond the shortest duration of its range
MaxExtraDuree == 1
\* longest frame, in half seconds
MaxDt == 2
\* asteroids one missile can overlap at once
MaxProches == 2
\* highest index in the asteroid list for which a distance test can hold
MaxParmi == 2
\* asteroids the ship can overlap in one maj_pos
MaxTouches == 2
\* rotation steps of 0.05 rad away from heading 0
MaxRot == 1
\* the largest speed of the ship, in pixels per frame
MaxElan == 2
\* calls of maj_pos_missile on one missile
MaxAvances == 2
\* how far from the ship, along an axis, an asteroid it meets is placed
MaxEcart == 2
\* the largest component of the velocity of an asteroid
MaxVitesse == 1
\* how far beyond an edge of the screen a coordinate is taken
MaxHors == 5
\* places a pickup can be drawn at, beside the first
MaxPositions == 1
\* calls of diminuer_résistance on one asteroid
MaxCoups == 6
\* how far from the ends of its range a coordinate of a pickup is drawn
MaxMarge == 0
\* last clock value, in half seconds
MaxTime == 10

----------------------------------------------------------------------------
(* Program constants *)

\* main.rs:139 and main.rs:207
NbAsteroidsDepart == 8
\* main.rs:331
BaseNiveau == 4
\* spaceship.rs:27 and spaceship.rs:55
BouclierMax == 100
\* asteroid.rs:113: effet_friction = 0.98, in hundredths
EffetFrictionPourCent == 98
\* spaceship.rs:166: impulse_strength = 1.2, in tenths
ImpulseStrengthDixiemes == 12
\* asteroid.rs:196: how far from the destroyed asteroid its fragments are put
OffsetDistance == 50
\* main.rs:267: the radius of a missile
RayonMissile == 3
\* missile.rs:20: the speed of a missile
VitesseMissile == 5
\* spaceship.rs:136: the radius of the ship
RayonVaisseau == 15
\* spaceship.rs:245-246: the centre of the screen the tests of the ship take
CentreX == 400
CentreY == 300
\* spaceship.rs:153: 0.5 s, in half seconds
DelaiCollision == 1
\* bonus.rs:64
SeuilBouclierBas == 30
\* bonus.rs:82: gen_range(5.0, 10.0), in half seconds
DureeCourteMin == 10
\* bonus.rs:72: gen_range(10.0, 15.0), in half seconds
DureeLongueMin == 20
\* bonus.rs:82: gen_range(5.0, 10.0), in half seconds
DureeCourteMax == 20
\* bonus.rs:72: gen_range(10.0, 15.0), in half seconds
DureeLongueMax == 30
\* bonus.rs:68: gen_range(50.0, screen_width() - 50.0)
MargeBonus == 50

\* asteroid.rs:21: ASTEROID_INIT_SIZE
ASTEROID_INIT_SIZE == 60

Min2(a, b) == IF a < b THEN a ELSE b

\* the subsets of 1 .. n with at most k elements
RECURSIVE Parties(_, _)
Parties(n, k) ==
  IF k = 0 THEN {{}}
  ELSE LET P == Parties(n, k - 1) IN P \cup { S \cup {i} : S \in P, i \in 1 .. n }

----------------------------------------------------------------------------
(* asteroid.rs *)

Tailles == 1 .. 3

\* Asteroid::new, the match on taille (asteroid.rs:34-39).  `coups` is a history
\* field: the number of calls of diminuer_resistance on this asteroid.
Asteroid_new(taille) ==
  [ taille |-> taille,
    resistance |-> CASE taille = 1 -> 1 [] taille = 2 -> 3 [] taille = 3 -> 5 [] OTHER -> 0,
    coups |-> 0 ]

\* a fragment constructor that takes the size for the resistance
nouvel_asteroid_sans_table(taille) ==
  [ taille |-> taille, resistance |-> taille, coups |-> 0 ]

\* Asteroid::nouvel_asteroid (asteroid.rs:52-67)
nouvel_asteroid(taille) ==
  [ taille |-> taille,
    resistance |-> CASE taille = 1 -> 1 [] taille = 2 -> 3 [] taille = 3 -> 5 [] OTHER -> 1,
    coups |-> 0 ]

\* a hit that takes a point of resistance whatever is left
diminuer_sans_garde(a) == [a EXCEPT !.resistance = @ - 1, !.coups = @ + 1]

\* a hit that leaves the last point of resistance
diminuer_sans_plancher(a) ==
  IF a.resistance > 1
    THEN [a EXCEPT !.resistance = @ - 1, !.coups = @ + 1]
    ELSE [a EXCEPT !.coups = @ + 1]

\* Asteroid::diminuer_résistance (asteroid.rs:86-90)
diminuer_resistance(a) ==
  IF a.resistance > 0
    THEN [a EXCEPT !.resistance = @ - 1, !.coups = @ + 1]
    ELSE [a EXCEPT !.coups = @ + 1]

\* Asteroid::est_détruit (asteroid.rs:93-95)
est_detruit(a) == a.resistance = 0

\* Asteroid::rayon_asteroid (asteroid.rs:125-132)
rayon_asteroid(a) ==
  CASE a.taille = 1 -> ASTEROID_INIT_SIZE \div 2
    [] a.taille = 2 -> ASTEROID_INIT_SIZE
    [] a.taille = 3 -> (ASTEROID_INIT_SIZE * 3) \div 2
    [] OTHER -> ASTEROID_INIT_SIZE

\* The asteroids a batch of n calls of Asteroid::new gives when the first size
\* drawn is in `tailles` and the others are 1
Lots(n, tailles) ==
  { [i \in 1 .. n |-> Asteroid_new(IF i = 1 THEN t ELSE 1)] : t \in tailles }

----------------------------------------------------------------------------
(* spaceship.rs *)

\* Spaceship::new (spaceship.rs:22-30)
Spaceship_new ==
  [ position |-> "centre", vitesse |-> "nulle", rotation |-> 0,
    bouclier |-> BouclierMax, cooldown |-> 0 ]

\* a recentring that also takes the ship back to heading 0
recentrer_et_redresser(v) ==
  [v EXCEPT !.position = "centre", !.vitesse = "nulle", !.rotation = 0]

\* Spaceship::recentrer (spaceship.rs:48-51)
recentrer(v) == [v EXCEPT !.position = "centre", !.vitesse = "nulle"]

\* a restoration that adds half a shield instead of filling it
restaurer_a_moitie(v) == [v EXCEPT !.bouclier = Min2(BouclierMax, @ + 50)]

\* Spaceship::restaurer_bouclier (spaceship.rs:54-56)
restaurer_bouclier(v) == [v EXCEPT !.bouclier = BouclierMax]

\* u8::saturating_sub
saturating_sub(x, y) == IF x >= y THEN x - y ELSE 0

\* a match on get_taille that charges every size the cost of a small asteroid
cout_uniforme(b, taille) ==
  CASE taille \in 1 .. 3 -> saturating_sub(b, 10)
    [] OTHER -> b

\* the match on get_taille (spaceship.rs:156-161)
bouclier_apres_choc(b, taille) ==
  CASE taille = 1 -> saturating_sub(b, 10)
    [] taille = 2 -> saturating_sub(b, 15)
    [] taille = 3 -> saturating_sub(b, 25)
    [] OTHER -> b

\* a collision that deducts whatever the time of the last deduction
choc_sans_delai(v, a, t) ==
  [v EXCEPT !.cooldown = t, !.bouclier = bouclier_apres_choc(v.bouclier, a.taille)]

\* the shield part of one iteration of the collision loop (spaceship.rs:153-162)
choc(v, a, t) ==
  IF t - v.cooldown > DelaiCollision
    THEN [v EXCEPT !.cooldown = t, !.bouclier = bouclier_apres_choc(v.bouclier, a.taille)]
    ELSE v

\* the collision loop of maj_pos (spaceship.rs:129-178) from asteroid i on;
\* T is the set of asteroids for which distance < distance_collision, and the
\* iterations after the last of them leave the ship as it is
RECURSIVE boucle_collisions(_, _, _, _, _)
boucle_collisions(v, asts, T, t, i) ==
  IF i > Len(asts) \/ (\A j \in T : j < i) THEN v
  ELSE boucle_collisions(IF i \in T THEN choc(v, asts[i], t) ELSE v, asts, T, t, i + 1)

\* the keys read by maj_pos (spaceship.rs:99-117)
Claviers == [gauche : BOOLEAN, droite : BOOLEAN, haut : BOOLEAN, bas : BOOLEAN]
ClavierRelache == [gauche |-> FALSE, droite |-> FALSE, haut |-> FALSE, bas |-> FALSE]

\* rotation after the Left/Right keys (spaceship.rs:99-105), in steps of 0.05 rad
rotation_apres(v, k) ==
  v.rotation - (IF k.gauche THEN 1 ELSE 0) + (IF k.droite THEN 1 ELSE 0)

\* what the velocity can be after the thrust keys and the friction
\* (spaceship.rs:108-120): zero stays zero without thrust
vitesses_apres(v, k) ==
  IF v.vitesse = "nulle"
    THEN (IF k.haut = k.bas THEN {"nulle"} ELSE {"non_nulle"})
    ELSE {"nulle", "non_nulle"}

\* where the ship can be after position += vitesse, bound_pos and the
\* corrections of the collision loop (spaceship.rs:123-126, 146-148)
positions_apres(v, vit, T) ==
  IF vit = "nulle" /\ T = {} THEN {v.position} ELSE {"centre", "ailleurs"}

\* Spaceship::maj_pos (spaceship.rs:97-179) with keys k, collision set T, at time t:
\* the rotation, the shield and the cooldown afterwards
maj_pos(v, asts, k, T, t) ==
  boucle_collisions([v EXCEPT !.rotation = rotation_apres(v, k)], asts, T, t, 1)

----------------------------------------------------------------------------
(* bonus.rs *)

\* the places a pickup can be drawn at (bonus.rs:20-23, 67-70, 77-80), as tokens
PositionsBonus == 0 .. MaxPositions

\* Bonus::nouveau_bonus (bonus.rs:18-27); the place drawn is token 0
nouveau_bonus == [position |-> 0, visible |-> FALSE, timer |-> 0]

\* the random draws of one update_bonus: `seuil` is the test of bonus.rs:62,
\* `chance` the test of bonus.rs:65 or bonus.rs:75, `extra` the drawn duration
\* above the minimum of its range, `position` the drawn place
Tirages ==
  [seuil : BOOLEAN, chance : BOOLEAN, extra : 0 .. MaxExtraDuree, position : PositionsBonus]
SansTirage == [seuil |-> FALSE, chance |-> FALSE, extra |-> 0, position |-> 0]

\* an update that draws again for a pickup already shown
update_bonus_retirage(b, delta_time, bouclier, r) ==
  IF r.seuil /\ r.chance /\ delta_time > 0
    THEN [position |-> r.position, visible |-> TRUE,
          timer |-> (IF bouclier < SeuilBouclierBas THEN DureeLongueMin ELSE DureeCourteMin)
                      + r.extra]
    ELSE IF b.visible
      THEN [b EXCEPT !.visible = b.timer - delta_time > 0, !.timer = b.timer - delta_time]
      ELSE b

\* an update that draws the duration of bonus.rs:82 whatever the shield
update_bonus_meme_duree(b, delta_time, bouclier, r) ==
  IF b.visible
    THEN [b EXCEPT !.visible = b.timer - delta_time > 0, !.timer = b.timer - delta_time]
    ELSE IF r.seuil /\ r.chance /\ delta_time > 0
      THEN [position |-> r.position, visible |-> TRUE, timer |-> DureeCourteMin + r.extra]
      ELSE b

\* Bonus::update_bonus (bonus.rs:52-87); the test of bonus.rs:62 compares a draw
\* in [0, 150) with delta_time * 5, which no draw passes when delta_time = 0
update_bonus(b, delta_time, bouclier, r) ==
  IF b.visible
    THEN [b EXCEPT !.visible = b.timer - delta_time > 0, !.timer = b.timer - delta_time]
    ELSE IF r.seuil /\ delta_time > 0
      THEN IF bouclier < SeuilBouclierBas
        THEN (IF r.chance
                THEN [position |-> r.position, visible |-> TRUE,
                      timer |-> DureeLongueMin + r.extra]
                ELSE b)
        ELSE (IF r.chance
                THEN [position |-> r.position, visible |-> TRUE,
                      timer |-> DureeCourteMin + r.extra]
                ELSE b)
      ELSE b

\* a collision test that does not look at `visible`
collision_sans_visible(b, contact) == contact

\* Bonus::verifier_collision (bonus.rs:97-109): the returned value; `contact` is
\* the test distance < rayon_vaisseau + 15
collision_bonus(b, contact) == b.visible /\ contact

\* Bonus::verifier_collision (bonus.rs:97-109): the bonus afterwards
verifier_collision(b, contact) ==
  IF b.visible /\ contact THEN [b EXCEPT !.visible = FALSE] ELSE b

----------------------------------------------------------------------------
(* missile.rs *)

\* Missile::nouveau_missile (missile.rs:19-22): the velocity is 5 * (cos, sin) of
\* the direction, kept here as the direction, in steps of 0.05 rad; the position
\* is not kept
nouveau_missile(direction) == [vitesse |-> direction]

----------------------------------------------------------------------------
(* main.rs: the parts of one iteration of the loop *)

\* the first asteroid from index i on whose distance test (main.rs:269) holds,
\* 0 when the inner loop (main.rs:265-305) ends without a collision
RECURSIVE premier_proche(_, _, _)
premier_proche(O, i, n) ==
  IF i > n THEN 0
  ELSE IF i \in O THEN i
  ELSE premier_proche(O, i + 1, n)

\* the fragments pushed for a destroyed asteroid (main.rs:277-297)
fragments(a) ==
  CASE a.taille = 3 -> << nouvel_asteroid(2), nouvel_asteroid(2) >>
    [] a.taille = 2 -> << nouvel_asteroid(1), nouvel_asteroid(1) >>
    [] OTHER -> << >>

\* s without its element i
retirer(s, i) == SubSeq(s, 1, i - 1) \o SubSeq(s, i + 1, Len(s))

\* the removal loop (main.rs:310-314, main.rs:321-325): the indices of idx from
\* position k down to 1, each removed from s when it is within s
RECURSIVE retirer_indices(_, _, _)
retirer_indices(s, idx, k) ==
  IF k = 0 THEN s
  ELSE retirer_indices(IF idx[k] <= Len(s) THEN retirer(s, idx[k]) ELSE s, idx, k - 1)

\* a removal pass that removes nothing
supprimer_rien(s, idx) == s

\* sort_unstable, then the removal loop (main.rs:309-314, main.rs:320-325)
supprimer(s, idx) ==
  LET tri == SortSeq(idx, LAMBDA x, y : x < y)
  IN retirer_indices(s, tri, Len(tri))

----------------------------------------------------------------------------
(* main.rs: the loop.  Each step takes its inputs (keys, clock, random draws,
   outcomes of the distance tests) in the sets the environment E allows. *)

\* main.rs:133-150
Init ==
  /\ pc = "boucle"
  /\ niveau = 1
  /\ asteroids \in Lots(NbAsteroidsDepart, Tailles)
  /\ vaisseau = Spaceship_new
  /\ missiles = << >>
  /\ bonus = nouveau_bonus
  /\ asteroids_to_remove = << >>
  /\ missiles_to_remove = << >>
  /\ new_asteroids = << >>
  /\ missile_index = 1
  /\ now = 0
  /\ dt = 0

\* the return of next_frame().await: the clock has moved on by the duration d
\* of the frame
debut_frame(d) ==
  /\ now + d <= MaxTime
  /\ now' = now + d
  /\ dt' = d

\* a GameOver screen whose restart keeps the level counter
GameOver_sans_niveau(d, entree, echap, tailles) ==
  /\ pc = "boucle"
  /\ vaisseau.bouclier = 0
  /\ now + d <= MaxTime
  /\ now' = now + d
  /\ dt' = 0
  /\ IF entree
       THEN /\ asteroids' \in Lots(NbAsteroidsDepart, tailles)
            /\ vaisseau' = Spaceship_new
            /\ missiles' = << >>
            /\ UNCHANGED niveau
       ELSE UNCHANGED << asteroids, vaisseau, missiles, niveau >>
  /\ pc' = IF echap THEN "quitte" ELSE "boucle"
  /\ UNCHANGED << bonus, asteroids_to_remove, missiles_to_remove, new_asteroids,
                  missile_index >>

\* a GameOver screen on which the timer of the pickup keeps running
GameOver_avec_timer(d, entree, echap, tailles) ==
  /\ pc = "boucle"
  /\ vaisseau.bouclier = 0
  /\ now + d <= MaxTime
  /\ now' = now + d
  /\ dt' = 0
  /\ IF entree
       THEN /\ asteroids' \in Lots(NbAsteroidsDepart, tailles)
            /\ vaisseau' = Spaceship_new
            /\ missiles' = << >>
            /\ niveau' = 1
       ELSE UNCHANGED << asteroids, vaisseau, missiles, niveau >>
  /\ bonus' = update_bonus(bonus, d, vaisseau.bouclier, SansTirage)
  /\ pc' = IF echap THEN "quitte" ELSE "boucle"
  /\ UNCHANGED << asteroids_to_remove, missiles_to_remove, new_asteroids,
                  missile_index >>

\* a restart that also builds a new pickup
GameOver_bonus_neuf(d, entree, echap, tailles) ==
  /\ pc = "boucle"
  /\ vaisseau.bouclier = 0
  /\ now + d <= MaxTime
  /\ now' = now + d
  /\ dt' = 0
  /\ IF entree
       THEN /\ asteroids' \in Lots(NbAsteroidsDepart, tailles)
            /\ vaisseau' = Spaceship_new
            /\ missiles' = << >>
            /\ niveau' = 1
            /\ bonus' = nouveau_bonus
       ELSE UNCHANGED << asteroids, vaisseau, missiles, niveau, bonus >>
  /\ pc' = IF echap THEN "quitte" ELSE "boucle"
  /\ UNCHANGED << asteroids_to_remove, missiles_to_remove, new_asteroids,
                  missile_index >>

\* the GameOver screen (main.rs:158-225) after a frame of duration d, with
\* Enter pressed or not (main.rs:202), Escape pressed or not (main.rs:219) and
\* the first size drawn by the restart in `tailles`
GameOverAvec(d, entree, echap, tailles) ==
  /\ pc = "boucle"
  /\ vaisseau.bouclier = 0
  /\ now + d <= MaxTime
  /\ now' = now + d
  /\ dt' = 0
  /\ IF entree
       THEN /\ asteroids' \in Lots(NbAsteroidsDepart, tailles)
            /\ vaisseau' = Spaceship_new
            /\ missiles' = << >>
            /\ niveau' = 1
       ELSE UNCHANGED << asteroids, vaisseau, missiles, niveau >>
  /\ pc' = IF echap THEN "quitte" ELSE "boucle"
  /\ UNCHANGED << bonus, asteroids_to_remove, missiles_to_remove, new_asteroids,
                  missile_index >>

GameOver(E) ==
  \E d \in E.dts, entree \in E.entrees, echap \in E.echaps_fin :
    GameOverAvec(d, entree, echap, E.tailles)

\* the start of a Playing iteration: vaisseau.maj_pos(&mut asteroids)
\* (main.rs:231) after a frame of duration d, with keys k, when the distance
\* test of spaceship.rs:141 holds for the asteroids of T
MajPosAvec(d, k, T) ==
  /\ pc = "boucle"
  /\ vaisseau.bouclier # 0
  /\ debut_frame(d)
  /\ rotation_apres(vaisseau, k) \in -MaxRot .. MaxRot
  /\ LET v == maj_pos(vaisseau, asteroids, k, T, now')
     IN \E vit \in vitesses_apres(vaisseau, k) :
          \E pos \in positions_apres(vaisseau, vit, T) :
            vaisseau' = [v EXCEPT !.vitesse = vit, !.position = pos]
  /\ pc' = "bonus"
  /\ UNCHANGED << niveau, asteroids, missiles, bonus, asteroids_to_remove,
                  missiles_to_remove, new_asteroids, missile_index >>

\* the sets of asteroids the ship can meet in one maj_pos
ToutesTouches(E) == Parties(Min2(Len(asteroids), E.touches_parmi), E.touches_max)

MajPos(E) == \E d \in E.dts, k \in E.claviers, T \in ToutesTouches(E) : MajPosAvec(d, k, T)

\* the pickup (main.rs:235-243) with the random draws r, `contact` being the
\* distance test of bonus.rs:103
BonusAvec(r, contact) ==
  /\ pc = "bonus"
  /\ LET b == update_bonus(bonus, dt, vaisseau.bouclier, r)
     IN /\ bonus' = verifier_collision(b, contact)
        /\ vaisseau' = IF collision_bonus(b, contact)
                         THEN restaurer_bouclier(vaisseau) ELSE vaisseau
  /\ pc' = "tir"
  /\ dt' = 0
  /\ UNCHANGED << niveau, asteroids, missiles, asteroids_to_remove, missiles_to_remove,
                  new_asteroids, missile_index, now >>

Bonus(E) == \E r \in E.tirages, contact \in E.contacts : BonusAvec(r, contact)

\* firing and the advance of the missiles (main.rs:246-262), Space having
\* been pressed (`espace`) or not
TirAvec(espace) ==
  /\ pc = "tir"
  /\ espace => Len(missiles) < MaxMissiles
  /\ missiles' = IF espace
                   THEN Append(missiles, nouveau_missile(vaisseau.rotation))
                   ELSE missiles
  /\ asteroids_to_remove' = << >>
  /\ missiles_to_remove' = << >>
  /\ new_asteroids' = << >>
  /\ missile_index' = 1
  /\ pc' = "scan"
  /\ UNCHANGED << niveau, asteroids, vaisseau, bonus, now, dt >>

Tir(E) == \E espace \in E.tirs : TirAvec(espace)

\* one iteration of the outer loop of the collision scan (main.rs:264-306):
\* missile missile_index against the asteroids, O being those within reach
ScanAvec(O) ==
  /\ pc = "scan"
  /\ missile_index <= Len(missiles)
  /\ LET i == premier_proche(O, 1, Len(asteroids))
     IN IF i = 0
          THEN UNCHANGED << asteroids, asteroids_to_remove, missiles_to_remove,
                            new_asteroids >>
          ELSE LET a == diminuer_resistance(asteroids[i])
               IN /\ asteroids' = [asteroids EXCEPT ![i] = a]
                  /\ IF est_detruit(a)
                       THEN /\ new_asteroids' = new_asteroids \o fragments(a)
                            /\ asteroids_to_remove' = Append(asteroids_to_remove, i)
                       ELSE UNCHANGED << new_asteroids, asteroids_to_remove >>
                  /\ missiles_to_remove' = Append(missiles_to_remove, missile_index)
  /\ missile_index' = missile_index + 1
  /\ UNCHANGED << pc, niveau, vaisseau, missiles, bonus, now, dt >>

\* the sets of asteroids one missile can be within reach of
TousProches(E) == Parties(Min2(Len(asteroids), E.proches_parmi), E.proches_max)

Scan(E) == \E O \in TousProches(E) : ScanAvec(O)

\* the removal of the destroyed asteroids, the fragments, the removal of the
\* missiles that hit (main.rs:308-325)
Retrait ==
  /\ pc = "scan"
  /\ missile_index > Len(missiles)
  /\ asteroids' = supprimer(asteroids, asteroids_to_remove) \o new_asteroids
  /\ missiles' = supprimer(missiles, missiles_to_remove)
  /\ new_asteroids' = << >>
  /\ pc' = "niveau"
  /\ UNCHANGED << niveau, vaisseau, bonus, asteroids_to_remove, missiles_to_remove,
                  missile_index, now, dt >>

\* a level that spawns no asteroid
nombre_nul(niv) == 0

\* a level that spawns as many asteroids as the level before asked for
nombre_ancien_niveau(niv) == BaseNiveau + niv - 1

\* the number of asteroids of a new level, niv being the level already
\* incremented (main.rs:330-331)
nombre_asteroids(niv) == BaseNiveau + niv

\* a level check that waits for a ship with some shield left
Niveau_si_bouclier(E) ==
  /\ pc = "niveau"
  /\ IF asteroids = << >> /\ vaisseau.bouclier > 0
       THEN /\ niveau < MaxNiveau
            /\ niveau' = niveau + 1
            /\ asteroids' \in Lots(nombre_asteroids(niveau'), E.tailles)
            /\ vaisseau' = recentrer(vaisseau)
            /\ missiles' = << >>
       ELSE UNCHANGED << niveau, asteroids, vaisseau, missiles >>
  /\ \E echap \in E.echaps_jeu : pc' = IF echap THEN "quitte" ELSE "boucle"
  /\ UNCHANGED << now, dt >>
  /\ asteroids_to_remove' = << >>
  /\ missiles_to_remove' = << >>
  /\ new_asteroids' = << >>
  /\ missile_index' = 1
  /\ UNCHANGED bonus

\* the level check, handle_input, update_model and next_frame (main.rs:327-345)
Niveau(E) ==
  /\ pc = "niveau"
  /\ IF asteroids = << >>
       THEN /\ niveau < MaxNiveau
            /\ niveau' = niveau + 1
            /\ asteroids' \in Lots(nombre_asteroids(niveau'), E.tailles)
            /\ vaisseau' = recentrer(vaisseau)
            /\ missiles' = << >>
       ELSE UNCHANGED << niveau, asteroids, vaisseau, missiles >>
  /\ \E echap \in E.echaps_jeu : pc' = IF echap THEN "quitte" ELSE "boucle"
  /\ UNCHANGED << now, dt >>
  /\ asteroids_to_remove' = << >>
  /\ missiles_to_remove' = << >>
  /\ new_asteroids' = << >>
  /\ missile_index' = 1
  /\ UNCHANGED bonus

----------------------------------------------------------------------------
(* The objects on their own: their methods called in any order, as the unit
   tests of asteroid.rs and spaceship.rs do *)

\* the states of a ship: the shield goes by steps of 5
Vaisseaux ==
  [ position : {"centre", "ailleurs"}, vitesse : {"nulle", "non_nulle"},
    rotation : -MaxRot .. MaxRot, bouclier : { b \in 0 .. BouclierMax : b % 5 = 0 },
    cooldown : {0, MaxTime} ]

\* one asteroid out of either constructor, a ship in any state
InitObjets ==
  /\ pc = "objets"
  /\ niveau = 1
  /\ asteroids \in { << Asteroid_new(t) >> : t \in Tailles }
                     \cup { << nouvel_asteroid(t) >> : t \in Tailles }
  /\ vaisseau \in Vaisseaux
  /\ missiles = << >>
  /\ bonus = nouveau_bonus
  /\ asteroids_to_remove = << >>
  /\ missiles_to_remove = << >>
  /\ new_asteroids = << >>
  /\ missile_index = 1
  /\ now = 0
  /\ dt = 0

\* pc outside the loop: "objets" after the constructors, then the name of the
\* last method called
Appels == {"objets", "diminuer_resistance", "recentrer", "restaurer_bouclier"}

\* asteroid.diminuer_résistance()
AppelDiminuer ==
  /\ pc \in Appels
  /\ pc' = "diminuer_resistance"
  /\ asteroids[1].coups < MaxCoups
  /\ asteroids' = << diminuer_resistance(asteroids[1]) >>
  /\ UNCHANGED << niveau, vaisseau, missiles, bonus, asteroids_to_remove,
                  missiles_to_remove, new_asteroids, missile_index, now, dt >>

\* vaisseau.recentrer()
AppelRecentrer ==
  /\ pc \in Appels
  /\ pc' = "recentrer"
  /\ vaisseau' = recentrer(vaisseau)
  /\ UNCHANGED << niveau, asteroids, missiles, bonus, asteroids_to_remove,
                  missiles_to_remove, new_asteroids, missile_index, now, dt >>

\* vaisseau.restaurer_bouclier()
AppelRestaurer ==
  /\ pc \in Appels
  /\ pc' = "restaurer_bouclier"
  /\ vaisseau' = restaurer_bouclier(vaisseau)
  /\ UNCHANGED << niveau, asteroids, missiles, bonus, asteroids_to_remove,
                  missiles_to_remove, new_asteroids, missile_index, now, dt >>

NextObjets ==
  \/ AppelDiminuer
  \/ AppelRecentrer
  \/ AppelRestaurer

SpecObjets == InitObjets /\ [][NextObjets]_vars

----------------------------------------------------------------------------
(* The two methods of the pickup called in any order on a pickup just built *)
(* (bonus.rs:18-27), beside a ship whose shield is full, at the threshold  *)
(* of bonus.rs:64, just under it, or empty.                                *)

InitAppelsBonus ==
  /\ pc = "objets"
  /\ niveau = 1
  /\ asteroids = << >>
  /\ vaisseau \in { [Spaceship_new EXCEPT !.bouclier = b] :
                      b \in {0, SeuilBouclierBas - 5, SeuilBouclierBas, BouclierMax} }
  /\ missiles = << >>
  /\ bonus = nouveau_bonus
  /\ asteroids_to_remove = << >>
  /\ missiles_to_remove = << >>
  /\ new_asteroids = << >>
  /\ missile_index = 1
  /\ now = 0
  /\ dt = 0

AppelsBonus == {"objets", "update_bonus", "verifier_collision"}

\* bonus.update_bonus(delta_time, bouclier) with the shield of the ship
\* (main.rs:235) and the draws r
AppelUpdateBonusAvec(delta_time, r) ==
  /\ pc \in AppelsBonus
  /\ pc' = "update_bonus"
  /\ bonus' = update_bonus(bonus, delta_time, vaisseau.bouclier, r)
  /\ UNCHANGED << niveau, asteroids, vaisseau, missiles, asteroids_to_remove,
                  missiles_to_remove, new_asteroids, missile_index, now, dt >>

AppelUpdateBonus == \E delta_time \in 0 .. MaxDt, r \in Tirages : AppelUpdateBonusAvec(delta_time, r)

\* if bonus.verifier_collision(..) { vaisseau.restaurer_bouclier() } (main.rs:241-243)
AppelVerifierAvec(contact) ==
  /\ pc \in AppelsBonus
  /\ pc' = "verifier_collision"
  /\ bonus' = verifier_collision(bonus, contact)
  /\ vaisseau' = IF collision_bonus(bonus, contact)
                   THEN restaurer_bouclier(vaisseau) ELSE vaisseau
  /\ UNCHANGED << niveau, asteroids, missiles, asteroids_to_remove,
                  missiles_to_remove, new_asteroids, missile_index, now, dt >>

AppelVerifier == \E contact \in BOOLEAN : AppelVerifierAvec(contact)

NextAppelsBonus ==
  \/ AppelUpdateBonus
  \/ AppelVerifier

SpecAppelsBonus == InitAppelsBonus /\ [][NextAppelsBonus]_vars

----------------------------------------------------------------------------
(* The pickup's part of Playing ticks that keep coming (main.rs:234-243):  *)
(* update_bonus with a frame time above 0, then verifier_collision.        *)

\* bonus.update_bonus(get_frame_time(), ..) (main.rs:235) after a frame that
\* took some time
AppelUpdateBonusPositif ==
  /\ pc \in {"objets", "verifier_collision"}
  /\ \E delta_time \in 1 .. MaxDt, r \in Tirages : AppelUpdateBonusAvec(delta_time, r)

\* bonus.verifier_collision(..) (main.rs:241) of the same tick
AppelVerifierEnsuite ==
  /\ pc = "update_bonus"
  /\ AppelVerifier

NextMinuterie ==
  \/ AppelUpdateBonusPositif
  \/ AppelVerifierEnsuite

\* the loop of main.rs:152-346 goes round as long as Escape is not pressed:
\* a tick that can run does run
SpecMinuterie ==
  InitAppelsBonus /\ [][NextMinuterie]_vars /\ WF_vars(NextMinuterie)

----------------------------------------------------------------------------
(* Positions and velocities in numbers.  A Vec2 is a pair of integers, or  *)
(* NaNVec when its components are NaN.                                     *)

\* screen_width() and screen_height(): the screen whose centre
\* (screen_width() / 2, screen_height() / 2, spaceship.rs:24) is the one of
\* the ship's tests
LargeurEcran == 2 * CentreX
HauteurEcran == 2 * CentreY

NaNVec == << >>

\* a wrap that takes the coordinate modulo the size of the screen
bound_to_modulo(coord, max) == coord % max

\* Asteroid::bound_to (asteroid.rs:177-185)
Asteroid_bound_to(coord, max) ==
  IF coord < 0 THEN max - coord
  ELSE IF coord > max THEN coord - max
  ELSE coord

\* Spaceship::bound_to (spaceship.rs:189-197)
Spaceship_bound_to(coord, max) ==
  IF coord < 0 THEN max - coord
  ELSE IF coord > max THEN coord - max
  ELSE coord

\* Asteroid::bound_pos (asteroid.rs:170-174); a comparison with NaN is false,
\* so that bound_to returns a NaN coordinate as it is
Asteroid_bound_pos(pos) ==
  IF pos = NaNVec THEN NaNVec
  ELSE << Asteroid_bound_to(pos[1], LargeurEcran), Asteroid_bound_to(pos[2], HauteurEcran) >>

\* Spaceship::bound_pos (spaceship.rs:182-186)
Spaceship_bound_pos(pos) ==
  IF pos = NaNVec THEN NaNVec
  ELSE << Spaceship_bound_to(pos[1], LargeurEcran), Spaceship_bound_to(pos[2], HauteurEcran) >>

\* an asteroid as Asteroid::new builds it (asteroid.rs:43-49), at position pos
\* with velocity v
Asteroid_place(taille, pos, v) ==
  [ taille |-> taille, resistance |-> Asteroid_new(taille).resistance, coups |-> 0,
    position |-> pos, speed |-> v, speed_min |-> v ]

\* a ship at rest at position pos, its other fields as Spaceship::new sets
\* them (spaceship.rs:22-30)
Spaceship_place(pos) == [Spaceship_new EXCEPT !.position = pos, !.vitesse = <<0, 0>>]

----------------------------------------------------------------------------
(* bound_pos called on an asteroid and on a ship that start at the same    *)
(* place, on the screen or up to MaxHors beyond one of its edges.          *)

\* the coordinates around the two ends of 0 .. max, and its middle
Coords(max) ==
  (-MaxHors .. MaxHors) \cup ((max - MaxHors) .. (max + MaxHors)) \cup {max \div 2}

InitRebouclage ==
  /\ pc = "objets"
  /\ niveau = 1
  /\ \E x \in Coords(LargeurEcran), y \in Coords(HauteurEcran) :
       /\ asteroids = << Asteroid_place(1, <<x, y>>, <<0, 0>>) >>
       /\ vaisseau = Spaceship_place(<<x, y>>)
  /\ missiles = << >>
  /\ bonus = nouveau_bonus
  /\ asteroids_to_remove = << >>
  /\ missiles_to_remove = << >>
  /\ new_asteroids = << >>
  /\ missile_index = 1
  /\ now = 0
  /\ dt = 0

AppelsRebouclage == {"objets", "Asteroid::bound_pos", "Spaceship::bound_pos"}

\* asteroid.position = Asteroid::bound_pos(asteroid.position) (asteroid.rs:100)
AppelAsteroidBoundPos ==
  /\ pc \in AppelsRebouclage
  /\ pc' = "Asteroid::bound_pos"
  /\ asteroids' = << [asteroids[1] EXCEPT !.position = Asteroid_bound_pos(@)] >>
  /\ UNCHANGED << niveau, vaisseau, missiles, bonus, asteroids_to_remove,
                  missiles_to_remove, new_asteroids, missile_index, now, dt >>

\* self.position = Self::bound_pos(self.position) (spaceship.rs:126)
AppelSpaceshipBoundPos ==
  /\ pc \in AppelsRebouclage
  /\ pc' = "Spaceship::bound_pos"
  /\ vaisseau' = [vaisseau EXCEPT !.position = Spaceship_bound_pos(@)]
  /\ UNCHANGED << niveau, asteroids, missiles, bonus, asteroids_to_remove,
                  missiles_to_remove, new_asteroids, missile_index, now, dt >>

NextRebouclage ==
  \/ AppelAsteroidBoundPos
  \/ AppelSpaceshipBoundPos

SpecRebouclage == InitRebouclage /\ [][NextRebouclage]_vars

----------------------------------------------------------------------------
(* A ship at rest beside one asteroid on the same horizontal or vertical   *)
(* line, so that distances and unit vectors are whole numbers.             *)

Signe(x) == IF x > 0 THEN 1 ELSE IF x < 0 THEN -1 ELSE 0
Abs(x) == IF x < 0 THEN -x ELSE x

\* Vec2::normalize of glam, v * (1 / v.length()): for the zero vector
\* 0 * infinity, NaN in both components; of the other vectors, those along an
\* axis
normalize(v) ==
  CASE v = NaNVec -> NaNVec
    [] v = <<0, 0>> -> NaNVec
    [] v # NaNVec /\ v # <<0, 0>> /\ v[2] = 0 -> << Signe(v[1]), 0 >>
    [] v # NaNVec /\ v # <<0, 0>> /\ v[1] = 0 -> << 0, Signe(v[2]) >>

\* Vec2::distance of two points on the same horizontal or vertical line
distance(p, q) ==
  CASE p[2] = q[2] -> Abs(p[1] - q[1])
    [] p[1] = q[1] -> Abs(p[2] - q[2])

\* the square of Vec2::length
Norme2(v) == v[1] * v[1] + v[2] * v[2]

\* Asteroid::rebondir (asteroid.rs:135-140); an operand NaN makes the
\* velocity NaN
rebondir(a, collision_direction) ==
  LET normale == normalize(collision_direction)
  IN IF normale = NaNVec \/ a.speed = NaNVec
       THEN [a EXCEPT !.speed = NaNVec]
       ELSE LET k == 2 * (a.speed[1] * normale[1] + a.speed[2] * normale[2])
            IN [a EXCEPT !.speed = << a.speed[1] - k * normale[1],
                                      a.speed[2] - k * normale[2] >>]

\* x * effet_friction (asteroid.rs:113, 116), rounded towards 0 to a whole
\* number of the unit the velocities are counted in
friction(x) == Signe(x) * ((Abs(x) * EffetFrictionPourCent) \div 100)

\* Asteroid::appliquer_resistance (asteroid.rs:112-122).  A comparison with
\* NaN is false; the inner test of asteroid.rs:118 assigns the velocity to
\* itself.
appliquer_resistance(a) ==
  CASE a.speed = NaNVec -> a
    [] a.speed # NaNVec /\ Norme2(a.speed) > Norme2(a.speed_min) ->
         [a EXCEPT !.speed = << friction(a.speed[1]), friction(a.speed[2]) >>]
    [] OTHER -> a

\* one iteration of the collision loop of maj_pos (spaceship.rs:129-178) at
\* time t for a ship at rest and the asteroid a: the ship and the asteroid
\* afterwards.  The impulse of spaceship.rs:165-170 is not given and vitesse
\* stays (0, 0) through spaceship.rs:174.
iteration_collision(v, a, t) ==
  LET pos == v.position
      distance_collision == RayonVaisseau + rayon_asteroid(a)
      \* distance < distance_collision (spaceship.rs:141), false for NaN
      proche == /\ pos # NaNVec
                /\ a.position # NaNVec
                /\ distance(pos, a.position) < distance_collision
  IN IF proche
       THEN LET collision_direction == << a.position[1] - pos[1], a.position[2] - pos[2] >>
                normale == normalize(collision_direction)
                recul == distance_collision - distance(pos, a.position)
                corrigee == IF normale = NaNVec THEN NaNVec
                            ELSE << pos[1] - normale[1] * recul, pos[2] - normale[2] * recul >>
            IN [ vaisseau |-> [choc(v, a, t) EXCEPT !.position = corrigee],
                 asteroid |-> appliquer_resistance(rebondir(a, collision_direction)) ]
       ELSE [ vaisseau |-> v,
              asteroid |-> appliquer_resistance(a) ]

\* Spaceship::maj_pos (spaceship.rs:97-178) at time t for a ship at rest, no
\* key held, and the one asteroid a: the ship and the asteroid afterwards.
\* vitesse stays (0, 0) through spaceship.rs:120 and the position through
\* spaceship.rs:123.
maj_pos_au_repos(v, a, t) ==
  iteration_collision([v EXCEPT !.position = Spaceship_bound_pos(@)], a, t)

\* the collision loop (spaceship.rs:129-178) from asteroid i on: the ship and
\* the list of asteroids afterwards
RECURSIVE boucle_au_repos(_, _, _, _)
boucle_au_repos(v, asts, t, i) ==
  IF i > Len(asts) THEN [ vaisseau |-> v, asteroids |-> asts ]
  ELSE LET r == iteration_collision(v, asts[i], t)
       IN boucle_au_repos(r.vaisseau, [asts EXCEPT ![i] = r.asteroid], t, i + 1)

\* Spaceship::maj_pos (spaceship.rs:97-178) at time t for a ship at rest, no
\* key held, and the list of asteroids asts
maj_pos_liste_au_repos(v, asts, t) ==
  boucle_au_repos([v EXCEPT !.position = Spaceship_bound_pos(@)], asts, t, 1)

\* beyond the reach of the ship for an asteroid of any size
HorsDePortee == RayonVaisseau + (ASTEROID_INIT_SIZE * 3) \div 2

Ecarts == (-MaxEcart .. MaxEcart) \cup {-HorsDePortee, HorsDePortee}

InitRebond ==
  /\ pc = "objets"
  /\ niveau = 1
  /\ vaisseau = Spaceship_place(<<CentreX, CentreY>>)
  /\ \E taille \in Tailles, e \in Ecarts, axe \in 1 .. 2,
        vx \in -MaxVitesse .. MaxVitesse, vy \in -MaxVitesse .. MaxVitesse :
       asteroids = << Asteroid_place(taille,
                        IF axe = 1 THEN <<CentreX + e, CentreY>> ELSE <<CentreX, CentreY + e>>,
                        <<vx, vy>>) >>
  /\ missiles = << >>
  /\ bonus = nouveau_bonus
  /\ asteroids_to_remove = << >>
  /\ missiles_to_remove = << >>
  /\ new_asteroids = << >>
  /\ missile_index = 1
  /\ now \in {0, DelaiCollision + 1}
  /\ dt = 0

\* vaisseau.maj_pos(&mut asteroids) (main.rs:231)
AppelMajPosAuRepos ==
  /\ pc \in {"objets", "maj_pos"}
  /\ pc' = "maj_pos"
  /\ LET r == maj_pos_au_repos(vaisseau, asteroids[1], now)
     IN /\ vaisseau' = r.vaisseau
        /\ asteroids' = << r.asteroid >>
  /\ UNCHANGED << niveau, missiles, bonus, asteroids_to_remove,
                  missiles_to_remove, new_asteroids, missile_index, now, dt >>

NextRebond == AppelMajPosAuRepos

SpecRebond == InitRebond /\ [][NextRebond]_vars

----------------------------------------------------------------------------
(* Missiles in numbers, fired along the axes: a heading is a number of     *)
(* quarter turns, whose cosine and sine are whole.                         *)

Quarts == 0 .. 3

cos_quart(h) == CASE h % 4 = 0 -> 1 [] h % 4 = 2 -> -1 [] OTHER -> 0
sin_quart(h) == CASE h % 4 = 1 -> 1 [] h % 4 = 3 -> -1 [] OTHER -> 0

\* Missile::nouveau_missile (missile.rs:19-22).  `origine`, `direction` and
\* `avances` are history fields: where and with which heading the missile
\* was fired, and the number of calls of maj_pos_missile on it.
Missile_nouveau_missile(position, direction) ==
  [ position |-> position,
    vitesse |-> << cos_quart(direction) * VitesseMissile,
                   sin_quart(direction) * VitesseMissile >>,
    origine |-> position, direction |-> direction, avances |-> 0 ]

\* an advance that wraps the position as an asteroid's
maj_pos_missile_reboucle(m) ==
  [m EXCEPT !.position = Asteroid_bound_pos(<< m.position[1] + m.vitesse[1],
                                               m.position[2] + m.vitesse[2] >>),
            !.avances = @ + 1]

\* Missile::maj_pos_missile (missile.rs:26-28)
maj_pos_missile(m) ==
  [m EXCEPT !.position = << m.position[1] + m.vitesse[1], m.position[2] + m.vitesse[2] >>,
            !.avances = @ + 1]

\* where the ship fires from: a corner of the screen, its centre, the
\* opposite corner
Origines == { <<0, 0>>, <<CentreX, CentreY>>, <<LargeurEcran, HauteurEcran>> }

InitMissiles ==
  /\ pc = "objets"
  /\ niveau = 1
  /\ asteroids = << >>
  /\ vaisseau = Spaceship_place(<<CentreX, CentreY>>)
  /\ missiles = << >>
  /\ bonus = nouveau_bonus
  /\ asteroids_to_remove = << >>
  /\ missiles_to_remove = << >>
  /\ new_asteroids = << >>
  /\ missile_index = 1
  /\ now = 0
  /\ dt = 0

AppelsMissiles == {"objets", "nouveau_missile", "maj_pos_missile"}

\* missiles.push(Missile::nouveau_missile(position, rotation)) (main.rs:248-250)
AppelNouveauMissile ==
  /\ pc \in AppelsMissiles
  /\ pc' = "nouveau_missile"
  /\ Len(missiles) < MaxMissiles
  /\ \E position \in Origines, direction \in Quarts :
       missiles' = Append(missiles, Missile_nouveau_missile(position, direction))
  /\ UNCHANGED << niveau, asteroids, vaisseau, bonus, asteroids_to_remove,
                  missiles_to_remove, new_asteroids, missile_index, now, dt >>

\* for missile in missiles.iter_mut() { missile.maj_pos_missile(); .. }
\* (main.rs:254-257)
AppelMajPosMissiles ==
  /\ pc \in AppelsMissiles
  /\ pc' = "maj_pos_missile"
  /\ \A i \in 1 .. Len(missiles) : missiles[i].avances < MaxAvances
  /\ missiles' = [ i \in 1 .. Len(missiles) |-> maj_pos_missile(missiles[i]) ]
  /\ UNCHANGED << niveau, asteroids, vaisseau, bonus, asteroids_to_remove,
                  missiles_to_remove, new_asteroids, missile_index, now, dt >>

NextMissiles ==
  \/ AppelNouveauMissile
  \/ AppelMajPosMissiles

SpecMissiles == InitMissiles /\ [][NextMissiles]_vars

----------------------------------------------------------------------------
(* One missile within reach or not of one asteroid on the same horizontal  *)
(* or vertical line, and the fragments of the asteroid if it is destroyed. *)

\* positions_asteroides_apres_collision (asteroid.rs:191-203): the pair
\* (pos1, pos2); a direction NaN makes both NaN
positions_asteroides_apres_collision(missile_pos, asteroid_pos) ==
  LET direction_missile ==
        normalize(<< asteroid_pos[1] - missile_pos[1], asteroid_pos[2] - missile_pos[2] >>)
  IN IF direction_missile = NaNVec THEN << NaNVec, NaNVec >>
     ELSE LET perpendiculaire == << -direction_missile[2], direction_missile[1] >>
          IN << << asteroid_pos[1] + perpendiculaire[1] * OffsetDistance,
                   asteroid_pos[2] + perpendiculaire[2] * OffsetDistance >>,
                << asteroid_pos[1] - perpendiculaire[1] * OffsetDistance,
                   asteroid_pos[2] - perpendiculaire[2] * OffsetDistance >> >>

\* Vec2::from_angle of new_alea_speed (asteroid.rs:161-166) for the angles
\* that are whole quarter turns
VitessesUnite == { << cos_quart(h), sin_quart(h) >> : h \in Quarts }

\* Asteroid::nouvel_asteroid (asteroid.rs:52-67) at position pos, v being the
\* velocity drawn
nouvel_asteroid_place(taille, pos, v) ==
  [ taille |-> taille, resistance |-> nouvel_asteroid(taille).resistance, coups |-> 0,
    position |-> pos, speed |-> v, speed_min |-> v ]

\* a live asteroid of size taille that has been hit `coups` times
Asteroid_entame(taille, pos, v, coups) ==
  [ Asteroid_place(taille, pos, v) EXCEPT !.resistance = @ - coups, !.coups = coups ]

InitFragments ==
  /\ pc = "objets"
  /\ niveau = 1
  /\ vaisseau = Spaceship_place(<<0, 0>>)
  /\ \E taille \in Tailles, e \in Ecarts, axe \in 1 .. 2 :
       /\ \E coups \in 0 .. (Asteroid_new(taille).resistance - 1) :
            asteroids = << Asteroid_entame(taille, <<CentreX, CentreY>>, <<1, 0>>, coups) >>
       /\ \E avances \in 0 .. MaxAvances :
            missiles =
              << [ Missile_nouveau_missile(
                     IF axe = 1 THEN <<CentreX + e, CentreY>> ELSE <<CentreX, CentreY + e>>, 0)
                   EXCEPT !.avances = avances ] >>
  /\ bonus = nouveau_bonus
  /\ asteroids_to_remove = << >>
  /\ missiles_to_remove = << >>
  /\ new_asteroids = << >>
  /\ missile_index = 1
  /\ now = 0
  /\ dt = 0

\* the body of the two loops of main.rs:264-306 for missile 1 and asteroid 1,
\* v1 and v2 being the velocities drawn for the fragments
CollisionMissileAvec(v1, v2) ==
  /\ pc = "objets"
  /\ pc' = "collision"
  /\ LET missile == missiles[1]
         asteroid == asteroids[1]
         collision_distance == RayonMissile + rayon_asteroid(asteroid)
     IN IF distance(missile.position, asteroid.position) < collision_distance
          THEN LET a == diminuer_resistance(asteroid)
                   pos == positions_asteroides_apres_collision(missile.position, a.position)
               IN /\ asteroids' = << a >>
                  /\ IF est_detruit(a)
                       THEN /\ new_asteroids' =
                                 IF a.taille \in {2, 3}
                                   THEN << nouvel_asteroid_place(a.taille - 1, pos[1], v1),
                                           nouvel_asteroid_place(a.taille - 1, pos[2], v2) >>
                                   ELSE << >>
                            /\ asteroids_to_remove' = << 1 >>
                       ELSE UNCHANGED << new_asteroids, asteroids_to_remove >>
                  /\ missiles_to_remove' = << 1 >>
          ELSE UNCHANGED << asteroids, new_asteroids, asteroids_to_remove, missiles_to_remove >>
  /\ UNCHANGED << niveau, vaisseau, missiles, bonus, missile_index, now, dt >>

CollisionMissile == \E v1 \in VitessesUnite, v2 \in VitessesUnite : CollisionMissileAvec(v1, v2)

NextFragments == CollisionMissile

SpecFragments == InitFragments /\ [][NextFragments]_vars

----------------------------------------------------------------------------
(* The calls that change the velocity of an asteroid (rebondir,            *)
(* nouvelle_vitesse with the impulse of the ship, appliquer_resistance),   *)
(* in any order.  Velocities are counted in 1/Unite of a pixel per frame.  *)

Unite == 1000

\* the lengths of the velocity of the ship: every tenth of a pixel per frame
\* up to MaxElan pixels per frame
ElansVaisseau == { (j * Unite) \div 10 : j \in 0 .. (10 * MaxElan) }

InitFriction ==
  /\ pc = "objets"
  /\ niveau = 1
  /\ vaisseau = Spaceship_place(<<CentreX, CentreY>>)
  /\ \E taille \in Tailles, u \in VitessesUnite :
       asteroids = << Asteroid_place(taille, <<CentreX, CentreY>>,
                                     << u[1] * Unite, u[2] * Unite >>) >>
  /\ missiles = << >>
  /\ bonus = nouveau_bonus
  /\ asteroids_to_remove = << >>
  /\ missiles_to_remove = << >>
  /\ new_asteroids = << >>
  /\ missile_index = 1
  /\ now = 0
  /\ dt = 0

AppelsFriction == {"objets", "rebondir", "nouvelle_vitesse", "appliquer_resistance"}

\* asteroid.rebondir(collision_direction) (spaceship.rs:151)
AppelRebondir ==
  /\ pc \in AppelsFriction
  /\ pc' = "rebondir"
  /\ \E collision_direction \in VitessesUnite :
       asteroids' = << rebondir(asteroids[1], collision_direction) >>
  /\ UNCHANGED << niveau, vaisseau, missiles, bonus, asteroids_to_remove,
                  missiles_to_remove, new_asteroids, missile_index, now, dt >>

\* the impulse of spaceship.rs:165-170 for a ship whose velocity has the
\* length elan, along the unit vector n of the collision
AppelImpulsionAvec(n, elan) ==
  /\ pc \in AppelsFriction
  /\ pc' = "nouvelle_vitesse"
  /\ asteroids' =
       IF 10 * elan > Unite
         THEN << [ asteroids[1] EXCEPT
                     !.speed = << (n[1] * elan * ImpulseStrengthDixiemes) \div 10,
                                  (n[2] * elan * ImpulseStrengthDixiemes) \div 10 >> ] >>
         ELSE asteroids
  /\ UNCHANGED << niveau, vaisseau, missiles, bonus, asteroids_to_remove,
                  missiles_to_remove, new_asteroids, missile_index, now, dt >>

AppelImpulsion == \E n \in VitessesUnite, elan \in ElansVaisseau : AppelImpulsionAvec(n, elan)

\* asteroid.appliquer_resistance() (spaceship.rs:177)
AppelAppliquerResistance ==
  /\ pc \in AppelsFriction
  /\ pc' = "appliquer_resistance"
  /\ asteroids' = << appliquer_resistance(asteroids[1]) >>
  /\ UNCHANGED << niveau, vaisseau, missiles, bonus, asteroids_to_remove,
                  missiles_to_remove, new_asteroids, missile_index, now, dt >>

NextFriction ==
  \/ AppelRebondir
  \/ AppelImpulsion
  \/ AppelAppliquerResistance

SpecFriction == InitFriction /\ [][NextFriction]_vars

----------------------------------------------------------------------------
(* A ship at rest and an asteroid that moves along the line through both,  *)
(* each starting on the screen, at most MaxHors from an edge or in the     *)
(* middle, at two different places.                                        *)

\* Asteroid::move_object (asteroid.rs:98-102); NaN stays NaN
move_object(a) ==
  IF a.position = NaNVec \/ a.speed = NaNVec
    THEN [a EXCEPT !.position = NaNVec]
    ELSE [a EXCEPT !.position = Asteroid_bound_pos(<< a.position[1] + a.speed[1],
                                                      a.position[2] + a.speed[2] >>)]

\* the coordinates of 0 .. max near its two ends, and its middle
CoordsDedans(max) == (0 .. MaxHors) \cup ((max - MaxHors) .. max) \cup {max \div 2}

InitDeplacement ==
  /\ pc = "objets"
  /\ niveau = 1
  /\ \E taille \in Tailles, vit \in -MaxVitesse .. MaxVitesse :
       \/ \E x \in CoordsDedans(LargeurEcran), xa \in CoordsDedans(LargeurEcran) :
            /\ x # xa
            /\ vaisseau = Spaceship_place(<<x, CentreY>>)
            /\ asteroids = << Asteroid_place(taille, <<xa, CentreY>>, <<vit, 0>>) >>
       \/ \E y \in CoordsDedans(HauteurEcran), ya \in CoordsDedans(HauteurEcran) :
            /\ y # ya
            /\ vaisseau = Spaceship_place(<<CentreX, y>>)
            /\ asteroids = << Asteroid_place(taille, <<CentreX, ya>>, <<0, vit>>) >>
  /\ missiles = << >>
  /\ bonus = nouveau_bonus
  /\ asteroids_to_remove = << >>
  /\ missiles_to_remove = << >>
  /\ new_asteroids = << >>
  /\ missile_index = 1
  /\ now \in {0, DelaiCollision + 1}
  /\ dt = 0

\* update_model(&mut asteroids) (main.rs:107-112, 343), which ends the tick
AppelUpdateModel ==
  /\ pc \in {"objets", "maj_pos"}
  /\ pc' = "update_model"
  /\ asteroids' = [ i \in 1 .. Len(asteroids) |-> move_object(asteroids[i]) ]
  /\ UNCHANGED << niveau, vaisseau, missiles, bonus, asteroids_to_remove,
                  missiles_to_remove, new_asteroids, missile_index, now, dt >>

NextDeplacement ==
  \/ AppelMajPosAuRepos
  \/ AppelUpdateModel

SpecDeplacement == InitDeplacement /\ [][NextDeplacement]_vars

----------------------------------------------------------------------------
(* A ship at rest in the middle of the screen and two asteroids on a line  *)
(* through it, each up to MaxEcart inside the distance at which it touches *)
(* the ship.                                                               *)

\* where an asteroid of size taille is, along an axis, when it overlaps the
\* ship by 0 to MaxEcart on one side or the other
EcartsTouchants(taille) ==
  { cote * (RayonVaisseau + rayon_asteroid([taille |-> taille]) - r) :
      cote \in {-1, 1}, r \in 0 .. MaxEcart }

InitDeuxAsteroids ==
  /\ pc = "objets"
  /\ niveau = 1
  /\ vaisseau = Spaceship_place(<<CentreX, CentreY>>)
  /\ \E axe \in 1 .. 2, t1 \in Tailles, t2 \in Tailles :
       \E e1 \in EcartsTouchants(t1), e2 \in EcartsTouchants(t2) :
         LET place(e) == IF axe = 1 THEN <<CentreX + e, CentreY>> ELSE <<CentreX, CentreY + e>>
             vit == IF axe = 1 THEN <<1, 0>> ELSE <<0, 1>>
         IN asteroids = << Asteroid_place(t1, place(e1), vit), Asteroid_place(t2, place(e2), vit) >>
  /\ missiles = << >>
  /\ bonus = nouveau_bonus
  /\ asteroids_to_remove = << >>
  /\ missiles_to_remove = << >>
  /\ new_asteroids = << >>
  /\ missile_index = 1
  /\ now \in {0, DelaiCollision + 1}
  /\ dt = 0

\* vaisseau.maj_pos(&mut asteroids) (main.rs:231)
AppelMajPosListe ==
  /\ pc \in {"objets", "maj_pos"}
  /\ pc' = "maj_pos"
  /\ LET r == maj_pos_liste_au_repos(vaisseau, asteroids, now)
     IN /\ vaisseau' = r.vaisseau
        /\ asteroids' = r.asteroids
  /\ UNCHANGED << niveau, missiles, bonus, asteroids_to_remove,
                  missiles_to_remove, new_asteroids, missile_index, now, dt >>

NextDeuxAsteroids == AppelMajPosListe

SpecDeuxAsteroids == InitDeuxAsteroids /\ [][NextDeuxAsteroids]_vars

----------------------------------------------------------------------------
(* The two methods of the pickup with the drawn durations and places in    *)
(* numbers: durations in half seconds, places as pairs of integers.        *)

\* rand::gen_range(low, high) on whole numbers, both ends included: the draw
\* is low + (high - low) * r with r in [0, 1] (bonus.rs:68-72, 78-82)
gen_range(low, high) == low .. high

\* the draws of gen_range(low, high) within MaxMarge of either end
gen_range_aux_bords(low, high) ==
  { x \in gen_range(low, high) : x - low <= MaxMarge \/ high - x <= MaxMarge }

\* the places drawn at bonus.rs:20-23, 67-70 and 77-80
PlacesBonus ==
  { << x, y >> : x \in gen_range_aux_bords(MargeBonus, LargeurEcran - MargeBonus),
                 y \in gen_range_aux_bords(MargeBonus, HauteurEcran - MargeBonus) }

\* the draws of one update_bonus(_, bouclier): the duration is drawn at
\* bonus.rs:72 if bouclier < 30 and at bonus.rs:82 otherwise, `extra` being what
\* it has above the lower end of its range
TiragesApparition(bouclier) ==
  [seuil : BOOLEAN, chance : BOOLEAN,
   extra : IF bouclier < SeuilBouclierBas
             THEN { d - DureeLongueMin : d \in gen_range(DureeLongueMin, DureeLongueMax) }
             ELSE { d - DureeCourteMin : d \in gen_range(DureeCourteMin, DureeCourteMax) },
   position : PlacesBonus]

InitApparition ==
  /\ pc = "objets"
  /\ niveau = 1
  /\ asteroids = << >>
  /\ vaisseau \in { [Spaceship_new EXCEPT !.bouclier = b] :
                      b \in {0, SeuilBouclierBas - 5, SeuilBouclierBas, BouclierMax} }
  /\ missiles = << >>
  /\ bonus \in { [nouveau_bonus EXCEPT !.position = p] : p \in PlacesBonus }
  /\ asteroids_to_remove = << >>
  /\ missiles_to_remove = << >>
  /\ new_asteroids = << >>
  /\ missile_index = 1
  /\ now = 0
  /\ dt = 0

\* bonus.update_bonus(delta_time, bouclier) with the shield of the ship
\* (main.rs:235) and draws in numbers
AppelUpdateBonusApparition ==
  \E delta_time \in 0 .. MaxDt, r \in TiragesApparition(vaisseau.bouclier) :
    AppelUpdateBonusAvec(delta_time, r)

NextApparition ==
  \/ AppelUpdateBonusApparition
  \/ AppelVerifier

SpecApparition == InitApparition /\ [][NextApparition]_vars

----------------------------------------------------------------------------
(* Environments *)

\* An environment gives the inputs the steps draw from: the keys held, the sets
\* of asteroids the ship (touches_*) and a missile (proches_*) can be close to,
\* the random draws of the pickup, the frame durations and the sizes drawn for
\* the first asteroid of a batch.

\* missiles and asteroids: the ship meets no asteroid, frames shorter than the
\* clock's half second, no pickup
EnvTirs ==
  [ claviers |-> {ClavierRelache, [ClavierRelache EXCEPT !.haut = TRUE]},
    touches_max |-> 0, touches_parmi |-> 0,
    tirs |-> BOOLEAN, proches_max |-> MaxProches, proches_parmi |-> MaxParmi,
    tirages |-> {SansTirage}, contacts |-> {FALSE}, dts |-> {0}, tailles |-> Tailles,
    entrees |-> {FALSE}, echaps_jeu |-> BOOLEAN, echaps_fin |-> {FALSE} ]

NextTirs ==
  \/ MajPos(EnvTirs)
  \/ Bonus(EnvTirs)
  \/ Tir(EnvTirs)
  \/ Scan(EnvTirs)
  \/ Retrait
  \/ Niveau(EnvTirs)

SpecTirs == Init /\ [][NextTirs]_vars

\* ship and shield: the ship meets asteroids, the clock runs, the pickup comes
\* and goes, the game ends and restarts; no missile is fired
EnvBouclier ==
  [ claviers |-> {ClavierRelache},
    touches_max |-> MaxTouches, touches_parmi |-> MaxParmi,
    tirs |-> {FALSE}, proches_max |-> 0, proches_parmi |-> 0,
    tirages |-> { r \in Tirages : r.extra = 0 /\ r.position = 0 }, contacts |-> BOOLEAN,
    dts |-> 0 .. MaxDt, tailles |-> Tailles,
    entrees |-> BOOLEAN, echaps_jeu |-> {FALSE}, echaps_fin |-> BOOLEAN ]

NextBouclier ==
  \/ GameOver(EnvBouclier)
  \/ MajPos(EnvBouclier)
  \/ Bonus(EnvBouclier)
  \/ Tir(EnvBouclier)
  \/ Retrait
  \/ Niveau(EnvBouclier)

SpecBouclier == Init /\ [][NextBouclier]_vars

\* a whole game: the levels before the last are cleared by missiles that hit
\* the head of the asteroid list, in frames shorter than the clock's half
\* second; in the last level the ship turns, thrusts, fires and meets the head
\* of the list while the clock runs; the game ends and restarts
EnvPartie ==
  [ claviers |-> {ClavierRelache, [ClavierRelache EXCEPT !.gauche = TRUE, !.haut = TRUE]},
    touches_max |-> IF niveau < MaxNiveau THEN 0 ELSE 1, touches_parmi |-> 1,
    tirs |-> BOOLEAN,
    proches_max |-> IF niveau < MaxNiveau THEN 1 ELSE 0, proches_parmi |-> 1,
    tirages |-> {SansTirage}, contacts |-> {FALSE},
    dts |-> IF niveau < MaxNiveau THEN {0} ELSE {0, MaxDt}, tailles |-> {3},
    entrees |-> BOOLEAN, echaps_jeu |-> {FALSE}, echaps_fin |-> BOOLEAN ]

NextPartie ==
  \/ GameOver(EnvPartie)
  \/ MajPos(EnvPartie)
  \/ Bonus(EnvPartie)
  \/ Tir(EnvPartie)
  \/ Scan(EnvPartie)
  \/ Retrait
  \/ Niveau(EnvPartie)

SpecPartie == Init /\ [][NextPartie]_vars

\* the last asteroid and the last of the shield: before the last level the
\* ship meets the head of the asteroid list, which the missiles hit as well,
\* while the clock runs; in the last level nothing moves but the clock; the
\* game ends and restarts
EnvDernierCoup ==
  [ claviers |-> {ClavierRelache},
    touches_max |-> IF niveau < MaxNiveau THEN 1 ELSE 0, touches_parmi |-> 1,
    tirs |-> IF niveau < MaxNiveau THEN BOOLEAN ELSE {FALSE},
    proches_max |-> IF niveau < MaxNiveau THEN 1 ELSE 0, proches_parmi |-> 1,
    tirages |-> {SansTirage}, contacts |-> {FALSE},
    dts |-> {0, MaxDt}, tailles |-> {3},
    entrees |-> BOOLEAN, echaps_jeu |-> {FALSE}, echaps_fin |-> BOOLEAN ]

NextDernierCoup ==
  \/ GameOver(EnvDernierCoup)
  \/ MajPos(EnvDernierCoup)
  \/ Bonus(EnvDernierCoup)
  \/ Tir(EnvDernierCoup)
  \/ Scan(EnvDernierCoup)
  \/ Retrait
  \/ Niveau(EnvDernierCoup)

SpecDernierCoup == Init /\ [][NextDernierCoup]_vars

\* the pickup through a whole game: levels cleared by missiles as in EnvPartie
\* while the clock runs and the pickup comes and goes; in the last level the
\* ship meets the head of the list instead; the game ends and restarts
EnvRamassage ==
  [ claviers |-> {ClavierRelache},
    touches_max |-> IF niveau < MaxNiveau THEN 0 ELSE 1, touches_parmi |-> 1,
    tirs |-> BOOLEAN,
    proches_max |-> IF niveau < MaxNiveau THEN 1 ELSE 0, proches_parmi |-> 1,
    tirages |-> { r \in Tirages : r.extra = 0 /\ r.position = 0 }, contacts |-> BOOLEAN,
    dts |-> {0, MaxDt}, tailles |-> {3},
    entrees |-> BOOLEAN, echaps_jeu |-> {FALSE}, echaps_fin |-> BOOLEAN ]

NextRamassage ==
  \/ GameOver(EnvRamassage)
  \/ MajPos(EnvRamassage)
  \/ Bonus(EnvRamassage)
  \/ Tir(EnvRamassage)
  \/ Scan(EnvRamassage)
  \/ Retrait
  \/ Niveau(EnvRamassage)

SpecRamassage == Init /\ [][NextRamassage]_vars

----------------------------------------------------------------------------
(* Claims checked under SpecTirs *)

\* the number of elements of s equal to x
RECURSIVE Occurrences(_, _)
Occurrences(s, x) ==
  IF s = << >> THEN 0
  ELSE (IF Head(s) = x THEN 1 ELSE 0) + Occurrences(Tail(s), x)

\* the asteroids of the list destroyed so far in this scan, of size t
Detruits(t) ==
  { i \in 1 .. Len(asteroids) : asteroids[i].resistance = 0 /\ asteroids[i].taille = t }

\* C2: during the scan of a tick, the fragments collected are exactly two
\* medium asteroids per destroyed large asteroid, two small ones per destroyed
\* medium asteroid and none per destroyed small asteroid, however many missiles
\* overlap a destroyed asteroid.
C2_DeuxFragmentsParAsteroide ==
  pc = "scan" =>
    /\ Len(SelectSeq(new_asteroids, LAMBDA a : a.taille = 2)) = 2 * Cardinality(Detruits(3))
    /\ Len(SelectSeq(new_asteroids, LAMBDA a : a.taille = 1)) = 2 * Cardinality(Detruits(2))
    /\ Len(new_asteroids) = 2 * Cardinality(Detruits(3)) + 2 * Cardinality(Detruits(2))

\* C3: the removal pass deletes only asteroids of resistance 0: each asteroid
\* that has resistance > 0 at the end of the scan is in the list after the pass
\* as many times as before.
C3_RetraitGardeLesVivants ==
  [][ (pc = "scan" /\ pc' = "niveau") =>
        \A i \in 1 .. Len(asteroids) :
          asteroids[i].resistance > 0 =>
            Occurrences(asteroids', asteroids[i]) >= Occurrences(asteroids, asteroids[i]) ]_vars

\* the least element of a non-empty set of indices
Plus_petit(O) == CHOOSE i \in O : \A j \in O : i <= j

\* C9: the missile scanned hits no asteroid when none is within reach; otherwise it
\* hits the asteroid of lowest index within reach and no other, the resistance
\* of that asteroid goes down by one, and the missile is recorded for removal;
\* the removal pass then takes every recorded missile out of the list.
C9_UnSeulAsteroideParMissile ==
  [][ /\ \A O \in SUBSET (1 .. Len(asteroids)) :
           ScanAvec(O) =>
             IF O = {}
               THEN asteroids' = asteroids /\ missiles_to_remove' = missiles_to_remove
               ELSE /\ asteroids'[Plus_petit(O)].resistance
                         = asteroids[Plus_petit(O)].resistance - 1
                    /\ \A j \in 1 .. Len(asteroids) :
                         j # Plus_petit(O) => asteroids'[j] = asteroids[j]
                    /\ missiles_to_remove' = Append(missiles_to_remove, missile_index)
      /\ Retrait => Len(missiles') = Len(missiles) - Len(missiles_to_remove) ]_vars

\* the resistance of a fresh asteroid of size t (asteroid.rs:34-39, 60-65)
ResistanceInitiale(t) == CASE t = 1 -> 1 [] t = 2 -> 3 [] t = 3 -> 5

\* C4: when the asteroid list is empty after the removal and fragment step, the
\* level goes up by exactly one, exactly 4 + (new level) fresh asteroids are
\* spawned, the ship is recentred (its other fields unchanged) and the missile
\* list is empty.
C4_NiveauSuivant ==
  [][ (pc = "niveau" /\ asteroids = << >>) =>
        /\ niveau' = niveau + 1
        /\ Len(asteroids') = 4 + niveau'
        /\ \A i \in 1 .. Len(asteroids') :
             /\ asteroids'[i].taille \in Tailles
             /\ asteroids'[i].resistance = ResistanceInitiale(asteroids'[i].taille)
        /\ vaisseau' = [vaisseau EXCEPT !.position = "centre", !.vitesse = "nulle"]
        /\ missiles' = << >> ]_vars

\* a level has just been cleared by a ship that had left the centre
C4_Temoin ==
  /\ pc = "boucle"
  /\ niveau = 2
  /\ Len(asteroids) = 6
  /\ missiles = << >>
  /\ vaisseau.position = "centre"
  /\ vaisseau.vitesse = "nulle"

\* C10: an asteroid that has taken k hits since its creation with resistance N
\* is destroyed when k = N and is not destroyed when k < N.
C10_DetruitApresNCoups ==
  \A i \in 1 .. Len(asteroids) :
    LET a == asteroids[i]
        N == ResistanceInitiale(a.taille)
    IN /\ a.coups = N => est_detruit(a)
       /\ a.coups < N => ~est_detruit(a)

\* a large asteroid destroyed by its fifth hit next to a small one never hit
C10_Temoin ==
  \E i, j \in 1 .. Len(asteroids) :
    /\ asteroids[i].taille = 3 /\ asteroids[i].coups = 5 /\ est_detruit(asteroids[i])
    /\ asteroids[j].taille = 1 /\ asteroids[j].coups = 0 /\ ~est_detruit(asteroids[j])

\* C11: a hit takes exactly one point of resistance from an asteroid that has
\* some left and leaves at 0 the resistance of an asteroid that has none; the
\* resistance is never negative and never above that of a fresh large asteroid.
C11_PlancherResistance ==
  [][ /\ (pc = "scan" /\ pc' = "scan") =>
           \A i \in 1 .. Len(asteroids) :
             IF asteroids'[i].coups = asteroids[i].coups + 1
               THEN asteroids'[i].resistance
                      = (IF asteroids[i].resistance > 0 THEN asteroids[i].resistance - 1 ELSE 0)
               ELSE asteroids'[i] = asteroids[i]
      /\ \A i \in 1 .. Len(asteroids') : asteroids'[i].resistance \in 0 .. 5 ]_vars

\* an asteroid hit again after its resistance had reached 0
C11_Temoin ==
  \E i \in 1 .. Len(asteroids) :
    /\ asteroids[i].resistance = 0
    /\ asteroids[i].coups > ResistanceInitiale(asteroids[i].taille)

\* C24: once the removal pass of a tick is done, and until the scan of the
\* next tick, no asteroid of the list has resistance 0 (those the scan brought
\* to 0 have been removed in the same tick) and every asteroid has a
\* resistance between 1 and the resistance its size starts with.
C24_ListeSansDetruit ==
  pc # "scan" =>
    \A i \in 1 .. Len(asteroids) :
      /\ asteroids[i].resistance >= 1
      /\ asteroids[i].resistance <= Asteroid_new(asteroids[i].taille).resistance

\* the removal pass has just taken out a destroyed asteroid and added its
\* fragments, beside an asteroid that was hit and lives
C24_Temoin ==
  /\ pc = "niveau"
  /\ asteroids_to_remove # << >>
  /\ \E i \in 1 .. Len(asteroids) :
       asteroids[i].coups > 0 /\ asteroids[i].resistance > 0
  /\ \E i \in 1 .. Len(asteroids) :
       asteroids[i].coups = 0 /\ asteroids[i].taille = 2
                           /\ i > Len(asteroids) - 2

\* C27: every level starts with 4 + level asteroids: the game starts, at
\* level 1, with 5 asteroids, a restart brings back level 1 with 5 asteroids,
\* and a level clear starts the next level with one asteroid more than the
\* level before it started with.
C27_UnDePlusParNiveau ==
  /\ (niveau = 1 /\ Len(asteroids) = nombre_asteroids(1))
  /\ [][ /\ (pc = "boucle" /\ vaisseau.bouclier = 0 /\ niveau' = 1
            /\ asteroids' # asteroids)
             => Len(asteroids') = nombre_asteroids(1)
         /\ niveau' = niveau + 1
             => Len(asteroids') = nombre_asteroids(niveau) + 1 ]_vars

----------------------------------------------------------------------------
(* Claims checked under SpecBouclier *)

\* C1: once a collision has brought the shield to 0 in a Playing tick, the
\* shield is still 0 when the next frame starts, whatever else happens in the
\* tick (a pickup collected included), so that the next frame is the GameOver
\* screen; and the GameOver screen runs no part of a Playing tick.
C1_BouclierNulPuisGameOver ==
  [][ /\ (pc # "boucle" /\ vaisseau.bouclier = 0) => vaisseau'.bouclier = 0
      /\ (pc = "boucle" /\ vaisseau.bouclier = 0) => pc' \in {"boucle", "quitte"} ]_vars

\* the cost of a collision with an asteroid of size t
Cout(t) == CASE t = 1 -> 10 [] t = 2 -> 15 [] t = 3 -> 25

\* b - c, or 0 when that is negative
Reduit(b, c) == IF b - c < 0 THEN 0 ELSE b - c

\* the sets of asteroids a collision step is examined for
EnsemblesTouches == SUBSET (1 .. Min2(Len(asteroids), MaxParmi))

\* C6: a collision with one asteroid, more than half a second after the last
\* deduction, takes 10, 15 or 25 from the shield for a small, medium or large
\* asteroid, stopping at 0: from 100 a large asteroid leaves 75 and a small one
\* 90; and no step leaves the shield below 0.
C6_CoutsDesChocs ==
  [][ /\ \A k \in EnvBouclier.claviers, i \in 1 .. Min2(Len(asteroids), MaxParmi) :
           (now' - vaisseau.cooldown > DelaiCollision /\ MajPosAvec(now' - now, k, {i})) =>
             /\ vaisseau'.bouclier = Reduit(vaisseau.bouclier, Cout(asteroids[i].taille))
             /\ (vaisseau.bouclier = 100 /\ asteroids[i].taille = 3) => vaisseau'.bouclier = 75
             /\ (vaisseau.bouclier = 100 /\ asteroids[i].taille = 1) => vaisseau'.bouclier = 90
      /\ vaisseau'.bouclier >= 0 ]_vars

\* a collision has just brought the shield to 0
C6_Temoin ==
  /\ pc = "bonus"
  /\ vaisseau.bouclier = 0
  /\ vaisseau.cooldown = now

\* C7: a collision at most half a second after the last deduction changes
\* neither the shield nor the recorded time; otherwise, whatever the number of
\* asteroids the ship overlaps in the tick, the shield goes down once, by the
\* cost of the overlapping asteroid of lowest index, and the time is recorded.
C7_UnSeulChocParDelai ==
  [][ \A k \in EnvBouclier.claviers, T \in EnsemblesTouches :
        MajPosAvec(now' - now, k, T) =>
          IF T = {} \/ now' - vaisseau.cooldown <= DelaiCollision
            THEN /\ vaisseau'.bouclier = vaisseau.bouclier
                 /\ vaisseau'.cooldown = vaisseau.cooldown
            ELSE /\ vaisseau'.bouclier
                      = Reduit(vaisseau.bouclier, Cout(asteroids[Plus_petit(T)].taille))
                 /\ vaisseau'.cooldown = now' ]_vars

\* the tick half a second after a deduction, the shield having been reduced
\* once by the medium asteroid at the head of the list
C7_Temoin ==
  /\ pc = "bonus"
  /\ now - vaisseau.cooldown = DelaiCollision
  /\ asteroids[1].taille = 2
  /\ vaisseau.bouclier = 85

\* C8: the shield is in [0, 100] in every state, and a step leaves it as it is,
\* sets it to exactly 100, or takes 10, 15 or 25 from it, stopping at 0.  A
\* tick is MajPos followed by Bonus, so a tick ends with one of these values.
C8_BouclierBorne ==
  /\ vaisseau.bouclier \in 0 .. 100
  /\ [][ /\ vaisseau'.bouclier \in 0 .. 100
         /\ vaisseau'.bouclier \in
              { vaisseau.bouclier, 100, Reduit(vaisseau.bouclier, 10),
                Reduit(vaisseau.bouclier, 15), Reduit(vaisseau.bouclier, 25) } ]_vars

\* a pickup has just been collected by a ship whose shield had been reduced
C8_Temoin ==
  /\ pc = "tir"
  /\ vaisseau.bouclier = 100
  /\ vaisseau.cooldown > 0
  /\ ~bonus.visible
  /\ bonus.timer > 0

\* C32: a ship that has had no shield deduction since it was built (its
\* recorded time is still the 0 of Spaceship::new, its shield is full) loses
\* the cost of the overlapping asteroid of lowest index in any tick in which
\* it overlaps an asteroid, whatever the clock shows.
C32_PremierChocCompte ==
  [][ \A k \in EnvBouclier.claviers, T \in EnsemblesTouches :
        (/\ MajPosAvec(now' - now, k, T)
         /\ T # {}
         /\ vaisseau.cooldown = Spaceship_new.cooldown
         /\ vaisseau.bouclier = BouclierMax)
          => vaisseau'.bouclier
               = Reduit(vaisseau.bouclier, Cout(asteroids[Plus_petit(T)].taille)) ]_vars

----------------------------------------------------------------------------
(* Claims checked under SpecPartie *)

\* the ship Spaceship::new is specified to build
VaisseauNeuf ==
  [ position |-> "centre", vitesse |-> "nulle", rotation |-> 0,
    bouclier |-> 100, cooldown |-> 0 ]

RECURSIVE Restants(_, _, _)
Restants(s, I, i) ==
  IF i > Len(s) THEN << >>
  ELSE (IF i \in I THEN << >> ELSE << s[i] >>) \o Restants(s, I, i + 1)

\* the indices of the missiles the scan of this tick has recorded as hits
IndicesTouches == { missiles_to_remove[j] : j \in 1 .. Len(missiles_to_remove) }

\* C33: the firing step of a Playing tick appends one missile when Space was
\* pressed and none otherwise; the scan records a missile exactly when an
\* asteroid is within its reach; the removal pass takes out the recorded
\* missiles and leaves the others as they were, in their order; the level
\* check leaves the list alone or, on a level clear, empties it; the GameOver
\* screen leaves it alone or, on a restart, empties it; no other step changes
\* the list.
C33_ListeDesMissiles ==
  [][ /\ \A espace \in BOOLEAN :
           TirAvec(espace) =>
             missiles' = IF espace
                           THEN Append(missiles, nouveau_missile(vaisseau.rotation))
                           ELSE missiles
      /\ \A O \in SUBSET (1 .. Min2(Len(asteroids), MaxParmi)) :
           ScanAvec(O) =>
             /\ missiles' = missiles
             /\ missiles_to_remove' = IF O = {} THEN missiles_to_remove
                                       ELSE Append(missiles_to_remove, missile_index)
      /\ Retrait => missiles' = Restants(missiles, IndicesTouches, 1)
      /\ pc = "niveau" =>
           missiles' = IF asteroids = << >> THEN << >> ELSE missiles
      /\ (pc = "boucle" /\ vaisseau.bouclier = 0) =>
           \/ missiles' = missiles
           \/ missiles' = << >> /\ vaisseau' = Spaceship_new /\ niveau' = 1
      /\ (pc = "bonus" \/ (pc = "boucle" /\ vaisseau.bouclier # 0)) =>
           missiles' = missiles ]_vars

\* the removal pass has just taken the second of two missiles, fired in two
\* directions, out of the list and left the first
C33_Temoin ==
  /\ pc = "niveau"
  /\ missiles_to_remove = << 2 >>
  /\ Len(missiles) = 1
  /\ missiles[1].vitesse = 0
  /\ vaisseau.rotation # 0

----------------------------------------------------------------------------
(* Claims checked under SpecObjets *)

\* C12: an asteroid fresh out of either constructor with size 1, 2 or 3 has
\* resistance 1, 3 or 5, and its radius is 30, 60 or 90.
C12_TablesDesTailles ==
  pc \in Appels =>
    \A i \in 1 .. Len(asteroids) :
      LET a == asteroids[i]
      IN /\ a.coups = 0 =>
              a.resistance = (CASE a.taille = 1 -> 1 [] a.taille = 2 -> 3 [] a.taille = 3 -> 5)
         /\ rayon_asteroid(a) = (CASE a.taille = 1 -> 30 [] a.taille = 2 -> 60 [] a.taille = 3 -> 90)

\* a fresh large asteroid
C12_Temoin ==
  /\ pc = "objets"
  /\ asteroids[1].taille = 3
  /\ asteroids[1].coups = 0
  /\ asteroids[1].resistance = 5

\* C13: restaurer_bouclier sets the shield to exactly 100 whatever it was,
\* changes no other field of the ship, and a second call changes nothing.
C13_RestaurerBouclier ==
  [][ AppelRestaurer =>
        /\ vaisseau'.bouclier = 100
        /\ vaisseau'.position = vaisseau.position
        /\ vaisseau'.vitesse = vaisseau.vitesse
        /\ vaisseau'.rotation = vaisseau.rotation
        /\ vaisseau'.cooldown = vaisseau.cooldown
        /\ restaurer_bouclier(vaisseau') = vaisseau' ]_vars

\* a full shield on a ship that is turned, moving, away from the centre and
\* has been hit
C13_Temoin ==
  /\ pc = "restaurer_bouclier"
  /\ vaisseau.bouclier = 100
  /\ vaisseau.position = "ailleurs"
  /\ vaisseau.vitesse = "non_nulle"
  /\ vaisseau.rotation # 0
  /\ vaisseau.cooldown # 0

\* C14: recentrer puts the ship at the centre of the screen with zero
\* velocity and leaves its shield, cooldown and heading as they were.
C14_Recentrer ==
  [][ AppelRecentrer =>
        /\ vaisseau'.position = "centre"
        /\ vaisseau'.vitesse = "nulle"
        /\ vaisseau'.bouclier = vaisseau.bouclier
        /\ vaisseau'.cooldown = vaisseau.cooldown
        /\ vaisseau'.rotation = vaisseau.rotation ]_vars

\* a recentred ship that is turned, has been hit and has half its shield
C14_Temoin ==
  /\ pc = "recentrer"
  /\ vaisseau.position = "centre"
  /\ vaisseau.vitesse = "nulle"
  /\ vaisseau.rotation # 0
  /\ vaisseau.cooldown # 0
  /\ vaisseau.bouclier = 50

----------------------------------------------------------------------------
(* Claims checked under SpecAppelsBonus *)

\* C15: while the pickup is visible, update_bonus leaves its position alone and
\* never raises its timer; while it is invisible, verifier_collision returns
\* false whatever the distance, the pickup is left as it is and the shield of
\* the ship is not restored.
C15_NiRetirageNiRamassageInvisible ==
  [][ /\ (AppelUpdateBonus /\ bonus.visible)
         => (bonus'.position = bonus.position /\ bonus'.timer <= bonus.timer)
      /\ \A contact \in BOOLEAN :
           (AppelVerifierAvec(contact) /\ ~bonus.visible)
             => (~collision_bonus(bonus, contact) /\ bonus' = bonus /\ vaisseau' = vaisseau)
    ]_vars

\* a pickup drawn at the second place has run out of time while it was shown,
\* and the collision test that follows leaves a shield that is not full
C15_Temoin ==
  /\ pc = "verifier_collision"
  /\ ~bonus.visible
  /\ bonus.position = 1
  /\ bonus.timer <= 0
  /\ vaisseau.bouclier < BouclierMax

\* C17: verifier_collision returns true exactly when the pickup is visible and
\* the ship is within reach, and then only `visible` changes, to false (the
\* caller restores the shield); in every other case it returns false and the
\* pickup keeps its position, visibility and timer (and the ship its shield).
C17_RamassageOuRien ==
  [][ \A contact \in BOOLEAN :
        AppelVerifierAvec(contact)
          => /\ collision_bonus(bonus, contact) = (bonus.visible /\ contact)
             /\ IF bonus.visible /\ contact
                  THEN /\ bonus' = [bonus EXCEPT !.visible = FALSE]
                       /\ vaisseau' = [vaisseau EXCEPT !.bouclier = BouclierMax]
                  ELSE /\ bonus' = bonus
                       /\ vaisseau' = vaisseau
    ]_vars

\* a pickup drawn at the second place has been picked up with time left, by a
\* ship that had no shield left when the pickup was built
C17_Temoin ==
  /\ pc = "verifier_collision"
  /\ ~bonus.visible
  /\ bonus.position = 1
  /\ bonus.timer > 0
  /\ vaisseau.bouclier = BouclierMax

----------------------------------------------------------------------------
(* Claims checked under SpecRamassage *)

\* C16: a pickup that is visible is invisible after a step exactly when the
\* step is the pickup's part of a tick (update_bonus, then verifier_collision)
\* and either its timer less the frame time is <= 0 or the ship is within
\* reach and collects it; the other steps of the game (the ship meeting an
\* asteroid, a level cleared, the game over and its restart) leave a visible
\* pickup visible.
C16_InvisibleParTimerOuRamassage ==
  [][ bonus.visible =>
        ( ~bonus'.visible
            <=> \E r \in EnvRamassage.tirages, contact \in BOOLEAN :
                  /\ BonusAvec(r, contact)
                  /\ (bonus.timer - dt <= 0 \/ contact) )
    ]_vars

\* the game is over in the last level, under a pickup that came when the
\* shield was not low and has lost time since: it was there while the ship
\* met asteroids
C16_Temoin ==
  /\ pc = "boucle"
  /\ niveau = MaxNiveau
  /\ vaisseau.bouclier = 0
  /\ bonus.visible
  /\ bonus.timer < DureeCourteMin
  /\ now <= DureeCourteMin

----------------------------------------------------------------------------
(* Claims checked under SpecRebouclage *)

\* what the wrap rule gives for a coordinate on a screen of size max
Rebouclee(coord, max) ==
  CASE coord < 0 -> max - coord
    [] coord > max -> coord - max
    [] OTHER -> coord

----------------------------------------------------------------------------
(* Claims checked under SpecRebond *)

\* C19: when maj_pos finds the asteroid at the very place of the ship (a
\* collision vector of length zero), the bounce does nothing: the velocity of
\* the asteroid and the position of the ship are what they were, and neither
\* is NaN.
C19_RebondNulSansNaN ==
  [][ ( /\ AppelMajPosAuRepos
        /\ vaisseau.position # NaNVec
        /\ asteroids[1].position = vaisseau.position )
        => /\ asteroids'[1].speed = asteroids[1].speed
           /\ vaisseau'.position = vaisseau.position
           /\ asteroids'[1].speed # NaNVec
           /\ vaisseau'.position # NaNVec
    ]_vars

----------------------------------------------------------------------------
(* Claims checked under SpecMissiles *)

\* five times the cosine and the sine of a heading of h quarter turns
CinqCosSin(h) ==
  CASE h = 0 -> <<5, 0>> [] h = 1 -> <<0, 5>> [] h = 2 -> <<-5, 0>> [] h = 3 -> <<0, -5>>

\* C20: a missile fired from p with heading h has the velocity
\* 5 * (cos h, sin h) for ever, and after n advances it is at p + n * velocity:
\* fired from (0, 0) with heading 0 it is at (5, 0) after one advance and at
\* (10, 0) after two; its position is never wrapped at an edge of the screen.
C20_MissileEnLigneDroite ==
  \A i \in 1 .. Len(missiles) :
    LET m == missiles[i]
        v == CinqCosSin(m.direction)
    IN /\ m.vitesse = v
       /\ m.position = << m.origine[1] + m.avances * v[1], m.origine[2] + m.avances * v[2] >>
       /\ (m.origine = <<0, 0>> /\ m.direction = 0 /\ m.avances = 1) => m.position = <<5, 0>>
       /\ (m.origine = <<0, 0>> /\ m.direction = 0 /\ m.avances = 2) => m.position = <<10, 0>>

\* a missile fired from (0, 0) with heading 0 is at (10, 0) after two
\* advances, and one fired after its first advance from the far corner of the
\* screen is beyond the right edge
C20_Temoin ==
  /\ pc = "maj_pos_missile"
  /\ Len(missiles) = 2
  /\ missiles[1].origine = <<0, 0>>
  /\ missiles[1].direction = 0
  /\ missiles[1].avances = 2
  /\ missiles[1].position = <<10, 0>>
  /\ missiles[2].origine = <<LargeurEcran, HauteurEcran>>
  /\ missiles[2].avances = 1
  /\ missiles[2].position[1] > LargeurEcran

----------------------------------------------------------------------------
(* Claims checked under SpecFragments *)

\* C21: when a missile at m destroys a medium or large asteroid at p, the two
\* fragments are put at two different places, each at distance 50 from p, one
\* the mirror image of the other through p, on the line through p that is
\* perpendicular to p - m; also when m = p.
C21_FragmentsDePartEtDAutre ==
  ( /\ pc = "collision"
    /\ est_detruit(asteroids[1])
    /\ asteroids[1].taille \in {2, 3} )
    => /\ Len(new_asteroids) = 2
       /\ LET p == asteroids[1].position
              m == missiles[1].position
              f1 == new_asteroids[1].position
              f2 == new_asteroids[2].position
          IN /\ f1 # NaNVec
             /\ f2 # NaNVec
             /\ f1 # f2
             /\ (f1[1] - p[1]) * (f1[1] - p[1]) + (f1[2] - p[2]) * (f1[2] - p[2]) = 50 * 50
             /\ (f2[1] - p[1]) * (f2[1] - p[1]) + (f2[2] - p[2]) * (f2[2] - p[2]) = 50 * 50
             /\ f1[1] + f2[1] = 2 * p[1]
             /\ f1[2] + f2[2] = 2 * p[2]
             /\ (f1[1] - p[1]) * (p[1] - m[1]) + (f1[2] - p[2]) * (p[2] - m[2]) = 0

----------------------------------------------------------------------------
(* Claims checked under SpecFriction *)

\* C22: after any sequence of bounces, impulses of the ship and calls of
\* appliquer_resistance, once appliquer_resistance has returned (it ends the
\* part of a tick that changes the velocity of an asteroid) the velocity of
\* the asteroid is not shorter than its speed_min.
C22_VitesseAuMoinsMinimale ==
  pc = "appliquer_resistance"
    => Norme2(asteroids[1].speed) >= Norme2(asteroids[1].speed_min)

----------------------------------------------------------------------------
(* Claims checked under SpecDeplacement *)

\* pos is a place of the screen
SurLEcran(pos) ==
  /\ pos # NaNVec
  /\ pos[1] \in 0 .. LargeurEcran
  /\ pos[2] \in 0 .. HauteurEcran

\* C23: from any place of the screen and with any velocity, an asteroid is on
\* the screen (each coordinate in 0 .. screen_max) after move_object, and the
\* ship is on the screen after maj_pos.
C23_ToujoursSurLEcran ==
  /\ pc = "update_model" => SurLEcran(asteroids[1].position)
  /\ pc = "maj_pos" => SurLEcran(vaisseau.position)

----------------------------------------------------------------------------
(* Claims checked under SpecDeuxAsteroids *)

\* C25: when maj_pos has run its collision loop, the ship is inside no
\* asteroid of the list: its distance to each is at least 15 plus the radius
\* of the asteroid, also when it overlapped two of them.
C25_SansInterpenetration ==
  pc = "maj_pos" =>
    \A i \in 1 .. Len(asteroids) :
      distance(vaisseau.position, asteroids[i].position)
        >= RayonVaisseau + rayon_asteroid(asteroids[i])

----------------------------------------------------------------------------
(* Claims checked under SpecDernierCoup *)

\* C26: when the removal pass of a tick leaves the asteroid list empty, the
\* level goes up by one and the asteroids of the new level are there before
\* the tick ends, whatever the shield of the ship, also 0; the GameOver screen
\* that follows (it shows `niveau`) finds the level that was incremented.
C26_NiveauSansCondition ==
  [][ (pc = "niveau" /\ asteroids = << >>)
        => /\ niveau' = niveau + 1
           /\ Len(asteroids') = BaseNiveau + niveau'
           /\ vaisseau'.bouclier = vaisseau.bouclier
           /\ pc' \in {"boucle", "quitte"}
    ]_vars

\* the GameOver screen is due (shield 0) at the last level, where the ship
\* meets nothing: the shield was 0 when the level before was cleared, and the
\* asteroids of the new level are there
C26_Temoin ==
  /\ pc = "boucle"
  /\ vaisseau.bouclier = 0
  /\ niveau = MaxNiveau
  /\ Len(asteroids) = BaseNiveau + niveau
  /\ \A i \in 1 .. Len(asteroids) : asteroids[i].coups = 0

\* C30: whenever a frame starts (the first one, one after a Playing tick, one
\* after a GameOver screen with or without restart) the asteroid list is not
\* empty; a tick whose removal pass empties it refills it, before the frame
\* ends, with 4 + level asteroids, the level being the new one, which is 6
\* asteroids or more.
C30_ListeJamaisVide ==
  /\ [](pc = "boucle" => asteroids # << >>)
  /\ [][ (pc = "niveau" /\ asteroids = << >>) =>
           /\ Len(asteroids') = 4 + niveau'
           /\ Len(asteroids') >= 6 ]_vars

\* a frame starts on the fresh asteroids of a level above the first, for a
\* ship that has lost some shield and kept some
C30_Temoin ==
  /\ pc = "boucle"
  /\ niveau > 1
  /\ vaisseau.bouclier \in 1 .. BouclierMax - 1
  /\ missiles = << >>
  /\ Len(asteroids) = nombre_asteroids(niveau)
  /\ \A i \in 1 .. Len(asteroids) :
       asteroids[i].resistance = Asteroid_new(asteroids[i].taille).resistance

\* C31: the level counter is always 1 or more; a step of a Playing tick leaves
\* it unchanged, except the level check, which runs once per tick and leaves
\* it unchanged or adds exactly 1; it goes down only on a GameOver screen that
\* restarts the game, and a restart sets it to 1.
C31_NiveauPasAPas ==
  /\ [](niveau >= 1)
  /\ [][ /\ niveau' # niveau =>
              \/ pc = "niveau" /\ niveau' = niveau + 1
              \/ pc = "boucle" /\ vaisseau.bouclier = 0 /\ vaisseau' = Spaceship_new
                               /\ niveau' = 1
         /\ (pc = "boucle" /\ vaisseau.bouclier = 0 /\ vaisseau' = Spaceship_new)
              => niveau' = 1 ]_vars

\* the game left on the frame that restarted it: level 1 and a new ship, the
\* clock having run
C31_Temoin ==
  /\ pc = "quitte"
  /\ niveau = 1
  /\ vaisseau = Spaceship_new
  /\ missiles = << >>
  /\ now > 0

----------------------------------------------------------------------------
(* Claims checked under SpecRamassage: the GameOver screen *)

\* C29: a frame of the GameOver screen on which no restart is confirmed leaves
\* the asteroids, the missiles, the ship, the level and the pickup as they
\* were; a frame on which the restart is confirmed leaves the pickup (place,
\* visibility, timer) as it was.
C29_GameOverFige ==
  [][ \A d \in EnvRamassage.dts, entree \in BOOLEAN, echap \in BOOLEAN :
        GameOverAvec(d, entree, echap, EnvRamassage.tailles) =>
          /\ bonus' = bonus
          /\ ~entree => UNCHANGED << asteroids, missiles, vaisseau, niveau >> ]_vars

\* the game left from a GameOver screen that showed, without a restart, a
\* missile in flight, the asteroids of the second level and a visible pickup
C29_Temoin ==
  /\ pc = "quitte"
  /\ vaisseau.bouclier = 0
  /\ missiles # << >>
  /\ niveau > 1
  /\ asteroids # << >>
  /\ bonus.visible
  /\ bonus.timer > 0

----------------------------------------------------------------------------
(* Claims checked under SpecMinuterie *)

\* C34: while Playing ticks keep coming, each after a frame time above 0, a
\* pickup that is visible is invisible after finitely many ticks.
C34_VisiblePuisInvisible == bonus.visible ~> ~bonus.visible

\* a pickup drawn at the second place has run out of time without being
\* collected
C34_Temoin ==
  /\ pc = "update_bonus"
  /\ ~bonus.visible
  /\ bonus.position = MaxPositions
  /\ bonus.timer <= 0
  /\ vaisseau.bouclier < BouclierMax

----------------------------------------------------------------------------
(* Claims checked under SpecApparition *)

\* C28: when an update_bonus turns the pickup from invisible to visible, the
\* timer it sets is within [10, 15] seconds if the shield passed is below 30
\* and within [5, 10] seconds otherwise, and the place it sets is at 50 or
\* more from every edge of the screen; an update_bonus that leaves an
\* invisible pickup invisible leaves the whole pickup unchanged.
C28_ApparitionDansLesBornes ==
  [][ (pc' = "update_bonus" /\ ~bonus.visible) =>
        IF bonus'.visible
          THEN /\ vaisseau.bouclier < 30 => bonus'.timer \in 2 * 10 .. 2 * 15
               /\ vaisseau.bouclier >= 30 => bonus'.timer \in 2 * 5 .. 2 * 10
               /\ bonus'.position[1] \in 50 .. LargeurEcran - 50
               /\ bonus'.position[2] \in 50 .. HauteurEcran - 50
          ELSE bonus' = bonus ]_vars

\* a pickup just shown for the longest time of its range beside a ship whose
\* shield is low, at the far corner of the rectangle of the places drawn
C28_Temoin ==
  /\ pc = "update_bonus"
  /\ vaisseau.bouclier < SeuilBouclierBas
  /\ bonus.visible
  /\ bonus.timer = DureeLongueMax
  /\ bonus.position = << LargeurEcran - MargeBonus, HauteurEcran - MargeBonus >>

============================================================================
